---- MODULE Spec2Model ----
(***************************************************************************)
(* RepoViz: commit-count validation (schemas.py) and chart generation      *)
(* (enhanced_plot_scripts.py, enhanced_mcp_server.py).                     *)
(*                                                                         *)
(* Text is modelled as sequences of one-character strings, so substring    *)
(* tests, strip/split and integer parsing are computed as the code does.   *)
(* A data file is the sequence of its physical lines, each given without   *)
(* its line terminator.                                                    *)
(***************************************************************************)
EXTENDS Integers, Sequences, FiniteSets, TLC

VARIABLES fs, vret, cret, mret, images, schemas, pcfg, palette, arguments, result,
          server, db

valVars == <<vret>>
chartVars == <<cret, mret, images, schemas>>
palVars == <<pcfg, palette>>
cfgVars == <<arguments, result>>
sysVars == <<server, db>>
vars == <<fs, vret, cret, mret, images, schemas, pcfg, palette, arguments, result,
          server, db>>

(* ------------------------------ bounds -------------------------------- *)
MaxLines == 3
MaxChartLines == 2
MaxCount == 12
MaxServed == 2

(* ------------------------------ text ---------------------------------- *)
None == "None"
\* a path of the file system that names no file, and a file with its lines
NoFile == [exists |-> FALSE, lines |-> <<>>]

File(lines) == [exists |-> TRUE, lines |-> lines]

Whitespace == {" ", "\t", "\n"}

Digits == <<"0", "1", "2", "3", "4", "5", "6", "7", "8", "9">>

IsDigit(c) == \E d \in 1..10 : Digits[d] = c

DigitVal(c) == (CHOOSE d \in 1..10 : Digits[d] = c) - 1

\* Python: sub in s
Contains(sub, s) ==
    \E k \in 0..(Len(s) - Len(sub)) : SubSeq(s, k + 1, k + Len(sub)) = sub

RECURSIVE LStrip(_)
LStrip(s) == IF s # <<>> /\ Head(s) \in Whitespace THEN LStrip(Tail(s)) ELSE s

RECURSIVE RStrip(_)
RStrip(s) ==
    IF s # <<>> /\ s[Len(s)] \in Whitespace
    THEN RStrip(SubSeq(s, 1, Len(s) - 1))
    ELSE s

\* Python: str.strip()
Strip(s) == RStrip(LStrip(s))

\* Python: str.split() -- split on runs of whitespace, no empty tokens
RECURSIVE SplitFrom(_, _, _)
SplitFrom(s, cur, acc) ==
    IF s = <<>>
    THEN IF cur = <<>> THEN acc ELSE Append(acc, cur)
    ELSE IF Head(s) \in Whitespace
         THEN SplitFrom(Tail(s), <<>>, IF cur = <<>> THEN acc ELSE Append(acc, cur))
         ELSE SplitFrom(Tail(s), Append(cur, Head(s)), acc)

Split(s) == SplitFrom(s, <<>>, <<>>)

RECURSIVE DigitsValue(_, _)
DigitsValue(s, acc) ==
    IF s = <<>> THEN acc
    ELSE IF Head(s) = "_" THEN DigitsValue(Tail(s), acc)
         ELSE DigitsValue(Tail(s), 10 * acc + DigitVal(Head(s)))

\* Python: int(token) in base 10 -- optional sign, decimal digits, single
\* underscores allowed between digits; anything else raises ValueError
ParseInt(tok) ==
    LET signed == tok # <<>> /\ Head(tok) \in {"-", "+"}
        body == IF signed THEN Tail(tok) ELSE tok
        wellFormed ==
            /\ body # <<>>
            /\ IsDigit(body[1])
            /\ IsDigit(body[Len(body)])
            /\ \A k \in 1..Len(body) : IsDigit(body[k]) \/ body[k] = "_"
            /\ \A k \in 1..(Len(body) - 1) : ~(body[k] = "_" /\ body[k + 1] = "_")
        magnitude == DigitsValue(body, 0)
    IN  IF ~wellFormed THEN [ok |-> FALSE, val |-> 0]
        ELSE [ok |-> TRUE,
              val |-> IF signed /\ Head(tok) = "-" THEN 0 - magnitude ELSE magnitude]

(* ---------------------------- schemas.py ------------------------------ *)
HOUR == "hour"
DAY == "day"
MONTH == "month"
PeriodType == {HOUR, DAY, MONTH}

\* CommitCount.validate_period_range(v, values): values holds the fields
\* validated before 'period'; values.get('period_type') is None when absent
validate_period_range(v, values) ==
    LET period_type ==
            IF "period_type" \in DOMAIN values THEN values["period_type"] ELSE None
    IN  IF period_type = HOUR /\ ~(0 <= v /\ v <= 23) THEN FALSE
        ELSE IF period_type = DAY /\ ~(0 <= v /\ v <= 6) THEN FALSE
        ELSE IF period_type = MONTH /\ ~(1 <= v /\ v <= 12) THEN FALSE
        ELSE TRUE

\* fields already validated when the validator of 'period' runs: 'period'
\* is the first field of the model, so none
ValuesBeforePeriod(period, count, period_type) == [f \in {} |-> None]

CommitCount_AnyCount(period, count, period_type) ==
    [ok |-> period_type \in PeriodType,
     value |-> [period |-> period, count |-> count, period_type |-> period_type]]

\* CommitCount(period=..., count=..., period_type=...): every field is
\* validated in declaration order; any failure fails the construction
CommitCount(period, count, period_type) ==
    LET periodOk ==
            validate_period_range(period, ValuesBeforePeriod(period, count, period_type))
        countOk == count >= 0
        typeOk == period_type \in PeriodType
    IN  IF periodOk /\ countOk /\ typeOk
        THEN [ok |-> TRUE,
              value |-> [period |-> period, count |-> count, period_type |-> period_type]]
        ELSE [ok |-> FALSE,
              value |-> [period |-> period, count |-> count, period_type |-> period_type]]

Chars_hour == <<"h", "o", "u", "r">>
Chars_day == <<"d", "a", "y">>
Chars_month == <<"m", "o", "n", "t", "h">>

\* mutant: the chain tests "month" before "hour"
InferPeriodType_MonthFirst(file_path) ==
    IF Contains(Chars_month, file_path) THEN MONTH
    ELSE IF Contains(Chars_hour, file_path) THEN HOUR
    ELSE IF Contains(Chars_day, file_path) THEN DAY
    ELSE None

\* the if/elif chain on the file path; None is the else branch (ValueError)
InferPeriodType(file_path) ==
    IF Contains(Chars_hour, file_path) THEN HOUR
    ELSE IF Contains(Chars_day, file_path) THEN DAY
    ELSE IF Contains(Chars_month, file_path) THEN MONTH
    ELSE None

VOk(records) ==
    [status |-> "ok", exc |-> None, cause |-> None, line |-> 0, records |-> records]

VErr(exc, cause, line) ==
    [status |-> "error", exc |-> exc, cause |-> cause, line |-> line, records |-> <<>>]

\* raise FileNotFoundError(f"Data file not found: {file_path}")
FileNotFound(file_path) == VErr("FileNotFoundError", None, 0) @@ [named |-> file_path]

\* mutant: the two tokens are read in the wrong order
ParseLine_Swapped(line, file_path) ==
    LET parts == Split(line)
        period == ParseInt(parts[2])
        count == ParseInt(parts[1])
        period_type == InferPeriodType(file_path)
        cc == CommitCount(period.val, count.val, period_type)
    IN  IF Len(parts) # 2 THEN [ok |-> FALSE, cause |-> "InvalidFormat", value |-> None]
        ELSE IF ~period.ok \/ ~count.ok
             THEN [ok |-> FALSE, cause |-> "InvalidLiteral", value |-> None]
        ELSE IF period_type = None
             THEN [ok |-> FALSE, cause |-> "CannotDeterminePeriodType", value |-> None]
        ELSE IF ~cc.ok THEN [ok |-> FALSE, cause |-> "ValidationError", value |-> None]
        ELSE [ok |-> TRUE, cause |-> None, value |-> cc.value]

\* body of the try block for one non-blank (stripped) line
ParseLine(line, file_path) ==
    LET parts == Split(line)
        period == ParseInt(parts[1])
        count == ParseInt(parts[2])
        period_type == InferPeriodType(file_path)
        cc == CommitCount(period.val, count.val, period_type)
    IN  IF Len(parts) # 2 THEN [ok |-> FALSE, cause |-> "InvalidFormat", value |-> None]
        ELSE IF ~period.ok \/ ~count.ok
             THEN [ok |-> FALSE, cause |-> "InvalidLiteral", value |-> None]
        ELSE IF period_type = None
             THEN [ok |-> FALSE, cause |-> "CannotDeterminePeriodType", value |-> None]
        ELSE IF ~cc.ok THEN [ok |-> FALSE, cause |-> "ValidationError", value |-> None]
        ELSE [ok |-> TRUE, cause |-> None, value |-> cc.value]

\* mutant: a line that fails is skipped and the records read so far are kept
RECURSIVE ValidateLines_SkipBad(_, _, _, _)
ValidateLines_SkipBad(lines, line_num, file_path, commit_counts) ==
    IF line_num > Len(lines) THEN VOk(commit_counts)
    ELSE LET line == Strip(lines[line_num])
         IN  IF line = <<>>
             THEN ValidateLines_SkipBad(lines, line_num + 1, file_path, commit_counts)
             ELSE LET r == ParseLine(line, file_path)
                  IN  IF r.ok
                      THEN ValidateLines_SkipBad(lines, line_num + 1, file_path,
                                                 Append(commit_counts, r.value))
                      ELSE ValidateLines_SkipBad(lines, line_num + 1, file_path,
                                                 commit_counts)

\* the for loop over enumerate(f, 1)
RECURSIVE ValidateLines(_, _, _, _)
ValidateLines(lines, line_num, file_path, commit_counts) ==
    IF line_num > Len(lines) THEN VOk(commit_counts)
    ELSE LET line == Strip(lines[line_num])
         IN  IF line = <<>>
             THEN ValidateLines(lines, line_num + 1, file_path, commit_counts)
             ELSE LET r == ParseLine(line, file_path)
                  IN  IF r.ok
                      THEN ValidateLines(lines, line_num + 1, file_path,
                                         Append(commit_counts, r.value))
                      ELSE VErr("ValueError", r.cause, line_num)

\* validate_commit_data_file(file_path) against the file system fsys
validate_commit_data_file_InferFirst(fsys, file_path) ==
    IF InferPeriodType(file_path) = None
    THEN VErr("ValueError", "CannotDeterminePeriodType", 0)
    ELSE IF ~fsys[file_path].exists
         THEN FileNotFound(file_path)
         ELSE ValidateLines(fsys[file_path].lines, 1, file_path, <<>>)

validate_commit_data_file(fsys, file_path) ==
    IF ~fsys[file_path].exists
    THEN FileNotFound(file_path)
    ELSE ValidateLines(fsys[file_path].lines, 1, file_path, <<>>)

(* ------------------- binary64 arithmetic of the palette --------------- *)
(* _generate_pie_colors computes int(p + (s - p) * (i / (count - 1))) in    *)
(* Python floats.  The three roundings (the division, the product, the sum) *)
(* are computed here bit by bit on mantissas held as sequences of bits,     *)
(* most significant first, rounding to nearest, ties to even, as IEEE 754   *)
(* binary64 does.  A value is a pair: the bits of an integer and the number *)
(* f of those bits that lie after the binary point.                         *)
MantissaBits == 53

\* add one to the number held in b
IncBits(b) ==
    LET zeros == {j \in 1..Len(b) : b[j] = 0}
    IN  IF zeros = {} THEN <<1>> \o [j \in 1..Len(b) |-> 0]
        ELSE LET z == CHOOSE j \in zeros : \A k \in zeros : k <= j
             IN  [j \in 1..Len(b) |-> IF j < z THEN b[j] ELSE IF j = z THEN 1 ELSE 0]

\* drop the k low bits, rounding to nearest, ties to even
RoundBits(b, k) ==
    IF k <= 0 THEN b
    ELSE LET keep == SubSeq(b, 1, Len(b) - k)
             half == b[Len(b) - k + 1]
             sticky == \E j \in (Len(b) - k + 2)..Len(b) : b[j] = 1
             lsb == IF keep = <<>> THEN 0 ELSE keep[Len(keep)]
         IN  IF half = 1 /\ (sticky \/ lsb = 1) THEN IncBits(keep) ELSE keep

\* the low w bits of the small integer n
LowBits(n, w) == [j \in 1..w |-> (n \div (2 ^ (w - j))) % 2]

StripZeros(b) ==
    LET ones == {j \in 1..Len(b) : b[j] = 1}
    IN  IF ones = {} THEN <<>>
        ELSE SubSeq(b, CHOOSE j \in ones : \A k \in ones : j <= k, Len(b))

BitsOf(n) == StripZeros(LowBits(n, 24))

RECURSIVE BitsValue(_)
BitsValue(b) ==
    IF b = <<>> THEN 0 ELSE 2 * BitsValue(SubSeq(b, 1, Len(b) - 1)) + b[Len(b)]

Zeros(n) == [j \in 1..n |-> 0]

\* bits are handled a limb at a time
LimbBits == 8

\* the bits of b times the small integer m, plus carry
RECURSIVE MulBits(_, _, _)
MulBits(b, m, carry) ==
    IF b = <<>> THEN BitsOf(carry)
    ELSE LET w == IF Len(b) < LimbBits THEN Len(b) ELSE LimbBits
             t == BitsValue(SubSeq(b, Len(b) - w + 1, Len(b))) * m + carry
         IN  MulBits(SubSeq(b, 1, Len(b) - w), m, t \div (2 ^ w)) \o LowBits(t % (2 ^ w), w)

\* the first n bits after the binary point of r / d (r < d), and the remainder
RECURSIVE DivBits(_, _, _, _)
DivBits(r, d, n, q) ==
    IF n = 0 THEN [q |-> q, r |-> r]
    ELSE LET w == IF n < LimbBits THEN n ELSE LimbBits
         IN  DivBits((r * (2 ^ w)) % d, d, n - w, q \o LowBits((r * (2 ^ w)) \div d, w))

\* number of zero bits between the binary point and the first one bit of i / d
RECURSIVE LeadingZeros(_, _)
LeadingZeros(i, d) == IF 2 * i >= d THEN 0 ELSE 1 + LeadingZeros(2 * i, d)

\* i / d rounded to binary64, for 0 <= i <= d and d > 0
FloatDiv(i, d) ==
    IF i = 0 THEN [bits |-> <<>>, f |-> 0]
    ELSE IF i = d THEN [bits |-> <<1>>, f |-> 0]
    ELSE LET n == LeadingZeros(i, d) + MantissaBits
             qr == DivBits(i, d, n, <<>>)
             m == StripZeros(qr.q)
             up == 2 * qr.r > d \/ (2 * qr.r = d /\ m[Len(m)] = 1)
         IN  [bits |-> IF up THEN IncBits(m) ELSE m, f |-> n]

\* round a value to MantissaBits significant bits
RoundValue(bits, f) ==
    LET k == IF Len(bits) > MantissaBits THEN Len(bits) - MantissaBits ELSE 0
    IN  [bits |-> RoundBits(bits, k), f |-> f - k]

\* int(v): the bits before the binary point
Truncate(v) ==
    IF Len(v.bits) > v.f THEN BitsValue(SubSeq(v.bits, 1, Len(v.bits) - v.f)) ELSE 0

\* 1 - 0.frac for a fraction that is not zero, on the same number of bits
Complement(frac) ==
    LET c == IncBits([j \in 1..Len(frac) |-> 1 - frac[j]])
    IN  SubSeq(c, Len(c) - Len(frac) + 1, Len(c))

\* int(p + prod) or int(p - prod), prod = whole + 0.frac with f fraction bits;
\* the sum is rounded before int() truncates it
AddAndTruncate(p, up, whole, frac, f) ==
    IF up THEN Truncate(RoundValue(StripZeros(BitsOf(p + whole) \o frac), f))
    ELSE IF \A j \in 1..Len(frac) : frac[j] = 0
         THEN Truncate(RoundValue(StripZeros(BitsOf(p - whole) \o frac), f))
         ELSE Truncate(RoundValue(StripZeros(BitsOf(p - whole - 1) \o Complement(frac)), f))

\* split a value into the integer before the binary point and the f bits after it
AddProduct(p, up, padded, f) ==
    AddAndTruncate(p, up, BitsValue(SubSeq(padded, 1, Len(padded) - f)),
                   SubSeq(padded, Len(padded) - f + 1, Len(padded)), f)

\* int(p + (s - p) * ratio) for channel values p, s in 0..255 and a ratio
\* from FloatDiv; the product and the sum are each rounded to binary64, and
\* int() truncates
InterpolateProduct(p, up, prod) ==
    AddProduct(p, up, Zeros(prod.f - Len(prod.bits)) \o prod.bits, prod.f)

Interpolate(p, s, ratio) ==
    IF s = p \/ ratio.bits = <<>> THEN p
    ELSE InterpolateProduct(p, s > p,
             RoundValue(StripZeros(MulBits(ratio.bits, IF s > p THEN s - p ELSE p - s, 0)),
                        ratio.f))

(* ------------------------------ colors -------------------------------- *)
HexDigits ==
    <<"0", "1", "2", "3", "4", "5", "6", "7", "8", "9", "a", "b", "c", "d", "e", "f">>

UpperHexDigits ==
    <<"0", "1", "2", "3", "4", "5", "6", "7", "8", "9", "A", "B", "C", "D", "E", "F">>

\* value of one hexadecimal digit, either case
HexVal(c) == (CHOOSE d \in 1..16 : HexDigits[d] = c \/ UpperHexDigits[d] = c) - 1

\* int(color[j:j+2], 16) for j in (1, 3, 5), on a '#' and six hex digits
HexToRgb(color) ==
    [k \in 1..3 |-> 16 * HexVal(color[2 * k]) + HexVal(color[2 * k + 1])]

\* f"#{r:02x}{g:02x}{b:02x}"
RgbToHex(rgb) ==
    <<"#", HexDigits[(rgb[1] \div 16) + 1], HexDigits[(rgb[1] % 16) + 1],
           HexDigits[(rgb[2] \div 16) + 1], HexDigits[(rgb[2] % 16) + 1],
           HexDigits[(rgb[3] \div 16) + 1], HexDigits[(rgb[3] % 16) + 1]>>

\* the loop pass with the ratio taken over count instead of count - 1
GradientColor_OverCount(base_color, secondary_color, i, count) ==
    LET ratio == FloatDiv(i, count)
        primary_rgb == HexToRgb(base_color)
        secondary_rgb == HexToRgb(secondary_color)
        interpolated_rgb ==
            [k \in 1..3 |-> Interpolate(primary_rgb[k], secondary_rgb[k], ratio)]
    IN  RgbToHex(interpolated_rgb)

\* one pass of the for loop of _generate_pie_colors, i in range(count)
GradientColor(base_color, secondary_color, i, count) ==
    LET ratio == FloatDiv(i, count - 1)
        primary_rgb == HexToRgb(base_color)
        secondary_rgb == HexToRgb(secondary_color)
        interpolated_rgb ==
            [k \in 1..3 |-> Interpolate(primary_rgb[k], secondary_rgb[k], ratio)]
    IN  RgbToHex(interpolated_rgb)

\* EnhancedPlotter._generate_pie_colors(count)
generate_pie_colors(plot_config, count) ==
    LET base_color == plot_config.color_primary
        secondary_color == plot_config.color_secondary
    IN  IF count = 1 THEN <<base_color>>
        ELSE IF count = 2 THEN <<base_color, secondary_color>>
        ELSE IF count <= 0 THEN <<>>
        ELSE [j \in 1..count |-> GradientColor(base_color, secondary_color, j - 1, count)]

(* --------------------------- file system ------------------------------ *)
\* file_mapping of load_commit_data and of handle_validate_data
Path_commit_counts ==
    <<".", "/", "G", "e", "n", "e", "r", "a", "t", "e", "d", " ", "D", "a", "t", "a", "/",
      "c", "o", "m", "m", "i", "t", "_", "c", "o", "u", "n", "t", "s", ".", "t", "x", "t">>

Path_commit_counts_day ==
    <<".", "/", "G", "e", "n", "e", "r", "a", "t", "e", "d", " ", "D", "a", "t", "a", "/",
      "c", "o", "m", "m", "i", "t", "_", "c", "o", "u", "n", "t", "s", "_", "d", "a", "y",
      ".", "t", "x", "t">>

Path_commit_counts_month ==
    <<".", "/", "G", "e", "n", "e", "r", "a", "t", "e", "d", " ", "D", "a", "t", "a", "/",
      "c", "o", "m", "m", "i", "t", "_", "c", "o", "u", "n", "t", "s", "_", "m", "o", "n",
      "t", "h", ".", "t", "x", "t">>

MappedPaths == {Path_commit_counts, Path_commit_counts_day, Path_commit_counts_month}

\* other data files handed to validate_commit_data_file
Path_monthly_hours ==
    <<"m", "o", "n", "t", "h", "l", "y", "_", "h", "o", "u", "r", "s", ".", "t", "x", "t">>

Path_day_month == <<"d", "a", "y", "_", "m", "o", "n", "t", "h", ".", "t", "x", "t">>

Path_month == <<"m", "o", "n", "t", "h", ".", "t", "x", "t">>

Path_HOUR == <<"H", "O", "U", "R", ".", "t", "x", "t">>

Path_counts == <<"c", "o", "u", "n", "t", "s", ".", "t", "x", "t">>

OtherPaths == {Path_monthly_hours, Path_day_month, Path_month, Path_HOUR, Path_counts}

AllPaths == MappedPaths \cup OtherPaths

\* lines of a data file
Line_blank == <<>>
Line_08_10 == <<"0", "8", " ", "1", "0">>
Line_0_0 == <<"0", " ", "0">>
Line_24_1 == <<"2", "4", " ", "1">>
Line_m1_3 == <<"-", "1", " ", "3">>
Line_3_m5 == <<"3", " ", "-", "5">>
Line_x_1 == <<"x", " ", "1">>
Line_5 == <<"5">>
Line_6_9 == <<" ", "6", "\t", "9", " ">>

ValidateLineSet ==
    {Line_blank, Line_08_10, Line_0_0, Line_24_1, Line_m1_3, Line_3_m5, Line_x_1,
     Line_5, Line_6_9}

FilesOf(lineSet, maxLines) == UNION {[1..n -> lineSet] : n \in 0..maxLines}

EmptyFs == [p \in AllPaths |-> NoFile]

NoValidateCall == [op |-> "none", file_path |-> <<>>, ret |-> VErr(None, None, 0)]

NoCall == [op |-> "none"]

(* ---------------------- enhanced_plot_scripts.py ----------------------- *)
Color_4e79a7 == <<"#", "4", "e", "7", "9", "a", "7">>
Color_2e4977 == <<"#", "2", "e", "4", "9", "7", "7">>

\* PlotConfig() with every field at its default; grid_alpha is held in tenths
DefaultPlotConfig ==
    [dpi |-> 300, figsize |-> <<12, 8>>, color_primary |-> Color_4e79a7,
     color_secondary |-> Color_2e4977, font_size |-> 12, grid_alpha |-> 3,
     title_fontsize |-> 16]

\* the ChartConfig that create_chart_from_env builds from an empty environment
EnvChartConfig(chart_type) ==
    [title |-> "Git Commit Analysis", output_filename |-> "commit_chart",
     chart_type |-> chart_type, repository_name |-> None,
     plot_config |-> DefaultPlotConfig]

HOUR_BAR == "hour_bar"
DAY_PIE == "day_pie"
MONTH_PIE == "month_pie"
DAY_MONTH_COMBINED == "day_month_combined"
ChartType == {HOUR_BAR, DAY_PIE, MONTH_PIE, DAY_MONTH_COMBINED}

\* file_mapping.get(data_type); <<>> stands for None
FileMapping(data_type) ==
    CASE data_type = "hour" -> Path_commit_counts
      [] data_type = "day" -> Path_commit_counts_day
      [] data_type = "month" -> Path_commit_counts_month
      [] OTHER -> <<>>

\* EnhancedPlotter.load_commit_data(data_type)
load_commit_data(fsys, data_type) ==
    LET file_path == FileMapping(data_type)
    IN  IF file_path = <<>> THEN FileNotFound(file_path)
        ELSE IF ~fsys[file_path].exists THEN FileNotFound(file_path)
        ELSE validate_commit_data_file(fsys, file_path)

day_names ==
    <<"Sunday", "Monday", "Tuesday", "Wednesday", "Thursday", "Friday", "Saturday">>

month_names ==
    <<"January", "February", "March", "April", "May", "June", "July", "August",
      "September", "October", "November", "December">>

short_day_names == <<"Sun", "Mon", "Tue", "Wed", "Thu", "Fri", "Sat">>

short_month_names ==
    <<"Jan", "Feb", "Mar", "Apr", "May", "Jun", "Jul", "Aug", "Sep", "Oct", "Nov", "Dec">>

\* [0] * n
ZeroCounts(n) == [k \in 1..n |-> 0]

\* Python: lst[index] = value -- a negative index counts from the end, an
\* index outside -len..len-1 raises IndexError
ListAssign(lst, index, value) ==
    IF 0 <= index /\ index < Len(lst)
    THEN [ok |-> TRUE, list |-> [lst EXCEPT ![index + 1] = value]]
    ELSE IF 0 - Len(lst) <= index /\ index < 0
         THEN [ok |-> TRUE, list |-> [lst EXCEPT ![Len(lst) + index + 1] = value]]
         ELSE [ok |-> FALSE, list |-> lst]

\* for cc in commit_data: counts[cc.period - first] = cc.count
RECURSIVE FillCounts(_, _, _, _)
FillCounts(counts, commit_data, k, first) ==
    IF k > Len(commit_data) THEN [ok |-> TRUE, list |-> counts]
    ELSE LET a == ListAssign(counts, commit_data[k].period - first, commit_data[k].count)
         IN  IF a.ok THEN FillCounts(a.list, commit_data, k + 1, first) ELSE a

\* for i, count in enumerate(counts): if count > 0: append the name and the count
RECURSIVE FilterNonZero(_, _, _)
FilterNonZero(names, counts, i) ==
    IF i > Len(counts) THEN [labels |-> <<>>, counts |-> <<>>]
    ELSE LET rest == FilterNonZero(names, counts, i + 1)
         IN  IF counts[i] > 0
             THEN [labels |-> <<names[i]>> \o rest.labels,
                   counts |-> <<counts[i]>> \o rest.counts]
             ELSE rest

\* f"./Generated Data/{self.config.output_filename}.png"
OutputPath(config) == <<"./Generated Data/", config.output_filename, ".png">>

\* f"./Generated Data/schemas/{self.config.output_filename}_schema.jsonld"
SchemaPath(config) == <<"./Generated Data/schemas/", config.output_filename, "_schema.jsonld">>

\* outcome of one chart method: what it raised or returned, whether savefig
\* ran, the pies handed to ax.pie (labels, counts, colors), the bars handed
\* to ax.bar, the records loaded and the count arrays filled, and the data
\* types load_commit_data was called with, in call order
ChartFailed(exc, cause) ==
    [status |-> "error", exc |-> exc, cause |-> cause, saved |-> FALSE,
     output_path |-> <<>>, pies |-> <<>>, bars |-> <<>>, palettes |-> 0,
     day_data |-> <<>>, month_data |-> <<>>, day_counts |-> <<>>, month_counts |-> <<>>,
     loads |-> <<>>]

ChartSaved(config) ==
    [status |-> "ok", exc |-> None, cause |-> None, saved |-> TRUE,
     output_path |-> OutputPath(config), pies |-> <<>>, bars |-> <<>>, palettes |-> 0,
     day_data |-> <<>>, month_data |-> <<>>, day_counts |-> <<>>, month_counts |-> <<>>,
     loads |-> <<>>]

HourBarLoaded(commit_data, config) ==
    IF commit_data.status = "error"
    THEN ChartFailed(commit_data.exc, commit_data.cause)
    ELSE [ChartSaved(config) EXCEPT
             !.bars = [k \in 1..Len(commit_data.records) |->
                          <<commit_data.records[k].period, commit_data.records[k].count>>]]

\* the outcome r of a chart method that called load_commit_data with loads
Loading(r, loads) == [r EXCEPT !.loads = loads]

\* EnhancedPlotter.create_hour_bar_chart()
create_hour_bar_chart(fsys, config) ==
    Loading(HourBarLoaded(load_commit_data(fsys, "hour"), config), <<"hour">>)

\* the pie handed to ax.pie, with its colors from _generate_pie_colors
Pie(filtered, config) ==
    [labels |-> filtered.labels, counts |-> filtered.counts,
     colors |-> generate_pie_colors(config.plot_config, Len(filtered.counts))]

\* create_day_pie_chart from the filtering of the counts on
DayPieFiltered(data, counts, filtered, config) ==
    IF filtered.counts = <<>>
    THEN [ChartFailed("ValueError", "NoData") EXCEPT
             !.day_data = data, !.day_counts = counts]
    ELSE [ChartSaved(config) EXCEPT
             !.day_data = data, !.day_counts = counts, !.palettes = 1,
             !.pies = <<Pie(filtered, config)>>]

\* create_day_pie_chart from the filling of day_counts on
DayPieFilled(data, day_counts, config) ==
    IF ~day_counts.ok
    THEN [ChartFailed("IndexError", None) EXCEPT
             !.day_data = data, !.day_counts = day_counts.list]
    ELSE DayPieFiltered(data, day_counts.list,
                        FilterNonZero(day_names, day_counts.list, 1), config)

DayPieLoaded(commit_data, config) ==
    IF commit_data.status = "error"
    THEN ChartFailed(commit_data.exc, commit_data.cause)
    ELSE DayPieFilled(commit_data.records,
                      FillCounts(ZeroCounts(7), commit_data.records, 1, 0), config)

\* EnhancedPlotter.create_day_pie_chart()
create_day_pie_chart(fsys, config) ==
    Loading(DayPieLoaded(load_commit_data(fsys, "day"), config), <<"day">>)

\* create_month_pie_chart from the filtering of the counts on
MonthPieFiltered(data, counts, filtered, config) ==
    IF filtered.counts = <<>>
    THEN [ChartFailed("ValueError", "NoData") EXCEPT
             !.month_data = data, !.month_counts = counts]
    ELSE [ChartSaved(config) EXCEPT
             !.month_data = data, !.month_counts = counts, !.palettes = 1,
             !.pies = <<Pie(filtered, config)>>]

\* create_month_pie_chart from the filling of month_counts on
MonthPieFilled(data, month_counts, config) ==
    IF ~month_counts.ok
    THEN [ChartFailed("IndexError", None) EXCEPT
             !.month_data = data, !.month_counts = month_counts.list]
    ELSE MonthPieFiltered(data, month_counts.list,
                          FilterNonZero(month_names, month_counts.list, 1), config)

MonthPieLoaded(commit_data, config) ==
    IF commit_data.status = "error"
    THEN ChartFailed(commit_data.exc, commit_data.cause)
    ELSE MonthPieFilled(commit_data.records,
                        FillCounts(ZeroCounts(12), commit_data.records, 1, 1), config)

\* EnhancedPlotter.create_month_pie_chart()
create_month_pie_chart(fsys, config) ==
    Loading(MonthPieLoaded(load_commit_data(fsys, "month"), config), <<"month">>)

\* if filtered_..._counts: the pie is drawn only when a count is left
OptionalPie(filtered, config) ==
    IF filtered.counts = <<>> THEN <<>> ELSE <<Pie(filtered, config)>>

\* create_combined_day_month_chart from the filling of month_counts on; the
\* day pie is drawn (and its palette computed) before month_counts is filled
CombinedFilled(day_data, month_data, day_counts, day_pie, month_counts, config) ==
    IF ~month_counts.ok
    THEN [ChartFailed("IndexError", None) EXCEPT
             !.day_data = day_data, !.month_data = month_data,
             !.day_counts = day_counts, !.month_counts = month_counts.list,
             !.palettes = Len(day_pie)]
    ELSE LET month_pie ==
                 OptionalPie(FilterNonZero(short_month_names, month_counts.list, 1), config)
         IN  [ChartSaved(config) EXCEPT
                 !.day_data = day_data, !.month_data = month_data,
                 !.day_counts = day_counts, !.month_counts = month_counts.list,
                 !.palettes = Len(day_pie) + Len(month_pie),
                 !.pies = day_pie \o month_pie]

CombinedDayFilled(day_data, month_data, day_counts, config) ==
    IF ~day_counts.ok
    THEN [ChartFailed("IndexError", None) EXCEPT
             !.day_data = day_data, !.month_data = month_data,
             !.day_counts = day_counts.list]
    ELSE CombinedFilled(day_data, month_data, day_counts.list,
                        OptionalPie(FilterNonZero(short_day_names, day_counts.list, 1),
                                    config),
                        FillCounts(ZeroCounts(12), month_data, 1, 1), config)

\* load_commit_data("month") is called only when load_commit_data("day") returned
CombinedLoaded(day_data, month_data, config) ==
    IF day_data.status = "error"
    THEN Loading(ChartFailed(day_data.exc, day_data.cause), <<"day">>)
    ELSE IF month_data.status = "error"
    THEN Loading(ChartFailed(month_data.exc, month_data.cause), <<"day", "month">>)
    ELSE Loading(CombinedDayFilled(day_data.records, month_data.records,
                                   FillCounts(ZeroCounts(7), day_data.records, 1, 0),
                                   config),
                 <<"day", "month">>)

\* EnhancedPlotter.create_combined_day_month_chart()
create_combined_day_month_chart(fsys, config) ==
    CombinedLoaded(load_commit_data(fsys, "day"), load_commit_data(fsys, "month"), config)

\* the dispatch with the month pie sent to the day pie method
create_chart_from_config_DayForMonth(fsys, config) ==
    CASE config.chart_type = HOUR_BAR -> create_hour_bar_chart(fsys, config)
      [] config.chart_type = DAY_PIE -> create_day_pie_chart(fsys, config)
      [] config.chart_type = MONTH_PIE -> create_day_pie_chart(fsys, config)
      [] config.chart_type = DAY_MONTH_COMBINED ->
             create_combined_day_month_chart(fsys, config)
      [] OTHER -> ChartFailed("ValueError", "UnsupportedChartType")

\* create_chart_from_config(config)
create_chart_from_config(fsys, config) ==
    CASE config.chart_type = HOUR_BAR -> create_hour_bar_chart(fsys, config)
      [] config.chart_type = DAY_PIE -> create_day_pie_chart(fsys, config)
      [] config.chart_type = MONTH_PIE -> create_month_pie_chart(fsys, config)
      [] config.chart_type = DAY_MONTH_COMBINED ->
             create_combined_day_month_chart(fsys, config)
      [] OTHER -> ChartFailed("ValueError", "UnsupportedChartType")

(* ----------------------- enhanced_mcp_server.py ------------------------ *)
\* commit_counts[:10]
FirstTen(s) == IF Len(s) <= 10 THEN s ELSE SubSeq(s, 1, 10)

\* the response built from the result of validate_commit_data_file
ValidateResponse(commit_counts) ==
    IF commit_counts.status = "error"
    THEN [success |-> FALSE, message |-> "Failed to validate data",
          error_details |-> IF commit_counts.exc = "ValueError"
                            THEN commit_counts.cause ELSE commit_counts.exc,
          total_records |-> 0, records |-> <<>>]
    ELSE [success |-> TRUE, message |-> "Successfully validated commit data",
          error_details |-> None, total_records |-> Len(commit_counts.records),
          records |-> FirstTen(commit_counts.records)]

\* handle_validate_data(arguments); data_type None stands for a missing argument
handle_validate_data(fsys, data_type) ==
    IF data_type = None
    THEN [success |-> FALSE, message |-> "data_type is required",
          error_details |-> None, total_records |-> 0, records |-> <<>>]
    ELSE IF FileMapping(data_type) = <<>>
    THEN [success |-> FALSE, message |-> "Invalid data_type",
          error_details |-> None, total_records |-> 0, records |-> <<>>]
    ELSE ValidateResponse(validate_commit_data_file(fsys, FileMapping(data_type)))

(* --------------- schemas.py: plot and chart configuration ------------- *)
\* an optional text that is None
Absent == <<None>>

FieldInRange_NoUpper(v, lo, hi) == lo <= v

\* Field(ge=lo, le=hi)
FieldInRange(v, lo, hi) == lo <= v /\ v <= hi

\* int(text, 16): surrounding whitespace, one sign, an 0x prefix and single
\* underscores between digits are accepted
SkipSign(s) == IF s # <<>> /\ s[1] \in {"+", "-"} THEN Tail(s) ELSE s

SkipHexPrefix(s) ==
    IF Len(s) >= 2 /\ s[1] = "0" /\ s[2] \in {"x", "X"}
    THEN IF Len(s) >= 3 /\ s[3] = "_" THEN SubSeq(s, 4, Len(s)) ELSE SubSeq(s, 3, Len(s))
    ELSE s

IsHexChar(c) == \E d \in 1..16 : HexDigits[d] = c \/ UpperHexDigits[d] = c

HexDigitsWithUnderscores(s) ==
    /\ s # <<>>
    /\ s[1] # "_"
    /\ s[Len(s)] # "_"
    /\ \A j \in 1..Len(s) : IsHexChar(s[j]) \/ s[j] = "_"
    /\ \A j \in 1..(Len(s) - 1) : ~(s[j] = "_" /\ s[j + 1] = "_")

IntBase16Parses(text) == HexDigitsWithUnderscores(SkipHexPrefix(SkipSign(Strip(text))))

\* PlotConfig.validate_hex_color(v): TRUE when v is returned, FALSE when it raises
validate_hex_color(v) ==
    IF v = <<>> \/ Head(v) # "#" \/ Len(v) # 7 THEN FALSE
    ELSE IntBase16Parses(Tail(v))

\* the fields of PlotConfig that fail validation
PlotConfigErrors(v) ==
    {f \in {"dpi"} : ~FieldInRange(v.dpi, 72, 600)}
    \cup {f \in {"color_primary"} : ~validate_hex_color(v.color_primary)}
    \cup {f \in {"color_secondary"} : ~validate_hex_color(v.color_secondary)}
    \cup {f \in {"font_size"} : ~FieldInRange(v.font_size, 8, 24)}
    \cup {f \in {"grid_alpha"} : ~FieldInRange(v.grid_alpha, 0, 10)}
    \cup {f \in {"title_fontsize"} : ~FieldInRange(v.title_fontsize, 10, 32)}

\* what a construction that raised ValidationError leaves: no object
NoConfig == [invalid |-> TRUE]

Built(v, errors) ==
    [ok |-> errors = {}, errors |-> errors, value |-> IF errors = {} THEN v ELSE NoConfig]

\* PlotConfig(**kwargs): the defaults, the overrides, then every field validator
PlotConfig(kwargs) ==
    Built(kwargs @@ DefaultPlotConfig, PlotConfigErrors(kwargs @@ DefaultPlotConfig))

invalid_chars == {"/", "\\", ":", "*", "?", "\"", "<", ">", "|"}

validate_filename_SlashOnly(v) == ~\E j \in 1..Len(v) : v[j] = "/"

\* ChartConfig.validate_filename(v): TRUE when v is returned, FALSE when it raises
validate_filename(v) == ~\E j \in 1..Len(v) : v[j] \in invalid_chars

\* the fields of ChartConfig that fail validation; plot_errors are those of
\* the nested plot configuration
ChartConfigErrors(v, plot_errors) ==
    {f \in {"title"} : Len(v.title) < 1}
    \cup {f \in {"output_filename"} :
              Len(v.output_filename) < 1 \/ ~validate_filename(v.output_filename)}
    \cup {f \in {"chart_type"} : v.chart_type \notin ChartType}
    \cup {f \in {"plot_config"} : plot_errors # {}}

\* ChartConfig(...) with plot_config a PlotConfig object (or left out): the
\* object is taken as it is, its fields are not validated again
ChartConfig(kwargs) ==
    Built(kwargs @@ [repository_name |-> Absent, plot_config |-> DefaultPlotConfig],
          ChartConfigErrors(kwargs, {}))

\* ChartConfig(**config.dict()): plot_config is a dict, validated as a PlotConfig
ChartConfigFromDict(d) ==
    Built(d, ChartConfigErrors(d, PlotConfigErrors(d.plot_config)))

Text_Commits_by_Hour ==
    <<"C", "o", "m", "m", "i", "t", "s", " ", "b", "y", " ", "H", "o", "u", "r">>
Text_Commits_by_Day_of_Week ==
    <<"C", "o", "m", "m", "i", "t", "s", " ", "b", "y", " ", "D", "a", "y", " ", "o", "f",
      " ", "W", "e", "e", "k">>
Text_Commits_by_Month ==
    <<"C", "o", "m", "m", "i", "t", "s", " ", "b", "y", " ", "M", "o", "n", "t", "h">>
Text_Commits_by_Day_and_Month ==
    <<"C", "o", "m", "m", "i", "t", "s", " ", "b", "y", " ", "D", "a", "y", " ", "a", "n",
      "d", " ", "M", "o", "n", "t", "h">>
Text_commits_by_hour ==
    <<"c", "o", "m", "m", "i", "t", "s", "_", "b", "y", "_", "h", "o", "u", "r">>
Text_commits_by_day == <<"c", "o", "m", "m", "i", "t", "s", "_", "b", "y", "_", "d", "a", "y">>
Text_commits_by_month ==
    <<"c", "o", "m", "m", "i", "t", "s", "_", "b", "y", "_", "m", "o", "n", "t", "h">>
Text_commits_by_day_month ==
    <<"c", "o", "m", "m", "i", "t", "s", "_", "b", "y", "_", "d", "a", "y", "_", "m", "o",
      "n", "t", "h">>

type_titles(chart_type) ==
    CASE chart_type = HOUR_BAR -> Text_Commits_by_Hour
      [] chart_type = DAY_PIE -> Text_Commits_by_Day_of_Week
      [] chart_type = MONTH_PIE -> Text_Commits_by_Month
      [] chart_type = DAY_MONTH_COMBINED -> Text_Commits_by_Day_and_Month

type_filenames(chart_type) ==
    CASE chart_type = HOUR_BAR -> Text_commits_by_hour
      [] chart_type = DAY_PIE -> Text_commits_by_day
      [] chart_type = MONTH_PIE -> Text_commits_by_month
      [] chart_type = DAY_MONTH_COMBINED -> Text_commits_by_day_month

UpperLetters ==
    <<"A", "B", "C", "D", "E", "F", "G", "H", "I", "J", "K", "L", "M",
      "N", "O", "P", "Q", "R", "S", "T", "U", "V", "W", "X", "Y", "Z">>

LowerLetters ==
    <<"a", "b", "c", "d", "e", "f", "g", "h", "i", "j", "k", "l", "m",
      "n", "o", "p", "q", "r", "s", "t", "u", "v", "w", "x", "y", "z">>

Lower_Unchanged(s) == s

\* str.lower()
Lower(s) ==
    [j \in 1..Len(s) |->
        IF \E d \in 1..26 : UpperLetters[d] = s[j]
        THEN LowerLetters[CHOOSE d \in 1..26 : UpperLetters[d] = s[j]]
        ELSE s[j]]

\* str.replace(old, new) for single characters
Replace(s, old, new) == [j \in 1..Len(s) |-> IF s[j] = old THEN new ELSE s[j]]

\* a text is true when it is neither None nor empty
Truthy(text) == text # Absent /\ text # <<>>

\* create_default_chart_config(chart_type, repo_name)
create_default_chart_config(chart_type, repo_name) ==
    IF Truthy(repo_name)
    THEN ChartConfig([title |-> type_titles(chart_type) \o <<" ", "-", " ">> \o repo_name,
                      output_filename |->
                          type_filenames(chart_type) \o <<"_">>
                              \o Replace(Replace(Lower(repo_name), " ", "_"), "-", "_"),
                      chart_type |-> chart_type, repository_name |-> repo_name])
    ELSE ChartConfig([title |-> type_titles(chart_type),
                      output_filename |-> type_filenames(chart_type),
                      chart_type |-> chart_type, repository_name |-> repo_name])

NoPaletteInput == [count |-> 0, color_primary |-> <<>>, color_secondary |-> <<>>]

NoPalette == [done |-> FALSE, colors |-> <<>>]

\* no configuration has been asked for
NoArguments == [op |-> "none"]

NoResult == [op |-> "none"]

\* no server loop and no database in the specification
NoServer == [escaped |-> FALSE]

NoDb == [open |-> FALSE]

(* --------------------- specification: the validator -------------------- *)
InitValidate ==
    /\ \E p \in OtherPaths : \E c \in FilesOf(ValidateLineSet, MaxLines) :
           fs = [EmptyFs EXCEPT ![p] = File(c)]
    /\ vret = NoValidateCall
    /\ cret = NoCall
    /\ mret = NoCall
    /\ images = {}
    /\ schemas = {}
    /\ pcfg = NoPaletteInput
    /\ palette = NoPalette
    /\ arguments = NoArguments
    /\ result = NoResult
    /\ server = NoServer
    /\ db = NoDb

ValidateCommitDataFile(file_path) ==
    /\ vret' = [op |-> "validate_commit_data_file", file_path |-> file_path,
                ret |-> validate_commit_data_file(fs, file_path)]
    /\ UNCHANGED <<fs, chartVars, palVars, cfgVars, sysVars>>

NextValidate == \E file_path \in OtherPaths : ValidateCommitDataFile(file_path)

SpecValidate == InitValidate /\ [][NextValidate]_vars

(* ----------------------- specification: charts ------------------------ *)
Line_1_5 == <<"1", " ", "5">>
Line_1_0 == <<"1", " ", "0">>
Line_6_2 == <<"6", " ", "2">>
Line_7_0 == <<"7", " ", "0">>

ChartLineSet == {Line_1_5, Line_1_0, Line_6_2, Line_m1_3, Line_7_0}

ChartFiles == {NoFile} \cup {File(c) : c \in FilesOf(ChartLineSet, MaxChartLines)}

NoChartCall == [op |-> "none", chart_type |-> None, ret |-> ChartFailed(None, None)]

NoToolCall ==
    [op |-> "none", data_type |-> None,
     ret |-> [success |-> FALSE, message |-> None, error_details |-> None,
              total_records |-> 0, records |-> <<>>]]

\* the data files hold at most MaxChartLines lines in all
InitChart ==
    /\ \E h \in {NoFile, File(<<>>), File(<<Line_1_5>>)} :
       \E d \in ChartFiles : \E m \in ChartFiles :
           /\ Len(d.lines) + Len(m.lines) <= MaxChartLines
           /\ fs = [EmptyFs EXCEPT ![Path_commit_counts] = h,
                                   ![Path_commit_counts_day] = d,
                                   ![Path_commit_counts_month] = m]
    /\ vret = NoValidateCall
    /\ cret = NoChartCall
    /\ mret = NoToolCall
    /\ images = {}
    /\ schemas = {}
    /\ pcfg = NoPaletteInput
    /\ palette = NoPalette
    /\ arguments = NoArguments
    /\ result = NoResult
    /\ server = NoServer
    /\ db = NoDb

\* the effect of a chart method that ended as r: savefig writes the image;
\* the schema file is written after it unless _save_chart_schema fails,
\* which it swallows
ChartWrites(config, r) ==
    /\ cret' = [op |-> "create_chart_from_config", chart_type |-> config.chart_type,
                ret |-> r]
    /\ images' = IF r.saved THEN images \cup {r.output_path} ELSE images
    /\ \/ schemas' = IF r.saved THEN schemas \cup {SchemaPath(config)} ELSE schemas
       \/ schemas' = schemas

ChartEffect(config, r) ==
    /\ ChartWrites(config, r)
    /\ UNCHANGED <<fs, vret, mret, palVars, cfgVars, sysVars>>

\* create_chart_from_config(config) on the configuration of create_chart_from_env
CreateChartFromConfig(chart_type) ==
    ChartEffect(EnvChartConfig(chart_type),
                create_chart_from_config(fs, EnvChartConfig(chart_type)))

NextChart == \E chart_type \in ChartType : CreateChartFromConfig(chart_type)

SpecChart == InitChart /\ [][NextChart]_vars

(* ------------------- specification: loading by type -------------------- *)
DataTypes == {"hour", "day", "month"}

DataTypeArguments == DataTypes \cup {"week", None}

\* EnhancedPlotter.load_commit_data(data_type), called on its own
LoadCommitData(data_type) ==
    /\ vret' = [op |-> "load_commit_data", file_path |-> FileMapping(data_type),
                ret |-> load_commit_data(fs, data_type)]
    /\ UNCHANGED <<fs, chartVars, palVars, cfgVars, sysVars>>

\* the validate_commit_data tool
HandleValidateData(data_type) ==
    /\ mret' = [op |-> "validate_commit_data", data_type |-> data_type,
                ret |-> handle_validate_data(fs, data_type)]
    /\ UNCHANGED <<fs, vret, cret, images, schemas, palVars, cfgVars, sysVars>>

NextLoad ==
    \/ \E data_type \in DataTypeArguments \ {None} : LoadCommitData(data_type)
    \/ \E data_type \in DataTypeArguments : HandleValidateData(data_type)

SpecLoad == InitChart /\ [][NextLoad]_vars

(* ---------------------- specification: palettes ----------------------- *)
Color_000000 == <<"#", "0", "0", "0", "0", "0", "0">>
Color_ffffff == <<"#", "f", "f", "f", "f", "f", "f">>
Color_37005a == <<"#", "3", "7", "0", "0", "5", "a">>
Color_FF8000 == <<"#", "F", "F", "8", "0", "0", "0">>

PaletteColors ==
    {Color_000000, Color_ffffff, Color_4e79a7, Color_2e4977, Color_37005a, Color_FF8000}

InitPalette ==
    /\ fs = EmptyFs
    /\ vret = NoValidateCall
    /\ cret = NoChartCall
    /\ mret = NoToolCall
    /\ images = {}
    /\ schemas = {}
    /\ \E count \in 1..MaxCount : \E primary \in PaletteColors :
       \E secondary \in PaletteColors :
           pcfg = [count |-> count, color_primary |-> primary,
                   color_secondary |-> secondary]
    /\ palette = NoPalette
    /\ arguments = NoArguments
    /\ result = NoResult
    /\ server = NoServer
    /\ db = NoDb

\* self._generate_pie_colors(count) on a plotter whose plot_config holds the two colors
GeneratePieColors ==
    /\ palette' = [done |-> TRUE, colors |-> generate_pie_colors(pcfg, pcfg.count)]
    /\ UNCHANGED <<fs, valVars, chartVars, pcfg, cfgVars, sysVars>>

NextPalette == GeneratePieColors

SpecPalette == InitPalette /\ [][NextPalette]_vars

(* ------------------ specification: plot configuration ------------------ *)
Color_red == <<"r", "e", "d">>
Color_12345 == <<"#", "1", "2", "3", "4", "5">>
Color_1234567 == <<"#", "1", "2", "3", "4", "5", "6", "7">>
Color_12345g == <<"#", "1", "2", "3", "4", "5", "g">>
Color_plus12345 == <<"#", "+", "1", "2", "3", "4", "5">>
Color_minus12345 == <<"#", "-", "1", "2", "3", "4", "5">>
Color_0x1234 == <<"#", "0", "x", "1", "2", "3", "4">>
Color_0X_123 == <<"#", "0", "X", "_", "1", "2", "3">>
Color_1_2345 == <<"#", "1", "_", "2", "3", "4", "5">>
Color_space12345 == <<"#", " ", "1", "2", "3", "4", "5">>
Color_12345space == <<"#", "1", "2", "3", "4", "5", " ">>
Color__12345 == <<"#", "_", "1", "2", "3", "4", "5">>
Color_12__45 == <<"#", "1", "2", "_", "_", "4", "5">>
Color_12345_ == <<"#", "1", "2", "3", "4", "5", "_">>
Color_plus_1234 == <<"#", "+", "_", "1", "2", "3", "4">>
Color_spaces == <<"#", " ", " ", " ", " ", " ", " ">>
Color_tab1234nl == <<"#", "\t", "1", "2", "3", "4", "\n">>

ColorArguments ==
    {Color_4e79a7, Color_2e4977, Color_FF8000,
     Color_red, Color_12345, Color_1234567, Color_12345g,
     Color_plus12345, Color_minus12345, Color_0x1234, Color_0X_123,
     Color_1_2345, Color_space12345, Color_12345space, Color__12345,
     Color_12__45, Color_12345_, Color_plus_1234, Color_spaces,
     Color_tab1234nl}

DpiArguments == {50, 71, 72, 300, 600, 601}

FigsizeArguments == {<<12, 8>>, <<1, 1>>, <<0, 8>>, <<12, -1>>}

FontSizeArguments == {7, 8, 12, 24, 25}

\* grid_alpha in tenths: -0.1, 0.0, 0.3, 1.0, 1.1, 2.0
GridAlphaArguments == {-1, 0, 3, 10, 11, 20}

TitleFontsizeArguments == {9, 10, 16, 32, 33}

\* the keyword arguments of one PlotConfig(...) call: the numbers vary with
\* the default colors, or the colors vary with the default numbers
PlotConfigArguments ==
    {[DefaultPlotConfig EXCEPT !.dpi = k[1], !.figsize = k[2], !.font_size = k[3],
                               !.grid_alpha = k[4], !.title_fontsize = k[5]] :
         k \in DpiArguments \X FigsizeArguments \X FontSizeArguments
                   \X GridAlphaArguments \X TitleFontsizeArguments}
    \cup {[DefaultPlotConfig EXCEPT !.color_primary = c[1], !.color_secondary = c[2]] :
              c \in ColorArguments \X ColorArguments}

InitPlotConfig ==
    /\ fs = EmptyFs
    /\ vret = NoValidateCall
    /\ cret = NoChartCall
    /\ mret = NoToolCall
    /\ images = {}
    /\ schemas = {}
    /\ pcfg = NoPaletteInput
    /\ palette = NoPalette
    /\ \E kwargs \in PlotConfigArguments :
           arguments = [op |-> "PlotConfig", kwargs |-> kwargs]
    /\ result = NoResult
    /\ server = NoServer
    /\ db = NoDb

\* PlotConfig(**kwargs)
ConstructPlotConfig ==
    /\ arguments.op = "PlotConfig"
    /\ result' = [op |-> "PlotConfig", ret |-> PlotConfig(arguments.kwargs)]
    /\ UNCHANGED <<fs, valVars, chartVars, palVars, arguments, sysVars>>

NextPlotConfig == ConstructPlotConfig

SpecPlotConfig == InitPlotConfig /\ [][NextPlotConfig]_vars

(* ----------------- specification: chart configuration ------------------ *)
Title_T == <<"T">>

Name_out == <<"o", "u", "t">>
Name_my_chart == <<"m", "y", "_", "c", "h", "a", "r", "t">>
Name_a_dot_b == <<"a", ".", "b">>
Name_a_space_b == <<"a", " ", "b">>
Name_bad_slash_name == <<"b", "a", "d", "/", "n", "a", "m", "e">>
Name_slash == <<"/">>
Name_a_backslash_b == <<"a", "\\", "b">>
Name_a_colon_b == <<"a", ":", "b">>
Name_a_star_b == <<"a", "*", "b">>
Name_a_question_b == <<"a", "?", "b">>
Name_a_quote_b == <<"a", "\"", "b">>
Name_a_less_b == <<"a", "<", "b">>
Name_a_greater_b == <<"a", ">", "b">>
Name_a_bar_b == <<"a", "|", "b">>

FilenameArguments ==
    {<<>>, Name_out, Name_my_chart, Name_a_dot_b, Name_a_space_b,
     Name_bad_slash_name, Name_slash, Name_a_backslash_b, Name_a_colon_b,
     Name_a_star_b, Name_a_question_b, Name_a_quote_b, Name_a_less_b,
     Name_a_greater_b, Name_a_bar_b}

Label_My_Repo == <<"M", "y", "-", "R", "e", "p", "o">>
Label_a_b == <<"a", " ", "b">>
Label_RepoViz == <<"R", "e", "p", "o", "V", "i", "z">>
Label_org_repo == <<"o", "r", "g", "/", "r", "e", "p", "o">>
Label_A_b_C == <<"A", "-", "b", " ", "C">>
Label_space == <<" ">>

LabelArguments ==
    {Absent, <<>>, Label_My_Repo, Label_a_b, Label_RepoViz,
     Label_org_repo, Label_A_b_C, Label_space}

ChartConfigArguments ==
    {[op |-> "ChartConfig",
      kwargs |-> [title |-> k[1], output_filename |-> k[2], chart_type |-> k[3]]] :
         k \in {<<>>, Title_T} \X FilenameArguments \X ChartType}
    \cup {[op |-> "create_default_chart_config", chart_type |-> k[1], repo_name |-> k[2]] :
              k \in ChartType \X LabelArguments}

InitChartConfig ==
    /\ fs = EmptyFs
    /\ vret = NoValidateCall
    /\ cret = NoChartCall
    /\ mret = NoToolCall
    /\ images = {}
    /\ schemas = {}
    /\ pcfg = NoPaletteInput
    /\ palette = NoPalette
    /\ arguments \in ChartConfigArguments
    /\ result = NoResult
    /\ server = NoServer
    /\ db = NoDb

\* ChartConfig(title=..., output_filename=..., chart_type=...)
ConstructChartConfig ==
    /\ arguments.op = "ChartConfig"
    /\ result' = [op |-> "ChartConfig", ret |-> ChartConfig(arguments.kwargs)]
    /\ UNCHANGED <<fs, valVars, chartVars, palVars, arguments, sysVars>>

\* create_default_chart_config(chart_type, repo_name)
CreateDefaultChartConfig ==
    /\ arguments.op = "create_default_chart_config"
    /\ result' = [op |-> "create_default_chart_config",
                  ret |-> create_default_chart_config(arguments.chart_type,
                                                      arguments.repo_name)]
    /\ UNCHANGED <<fs, valVars, chartVars, palVars, arguments, sysVars>>

NextChartConfig == ConstructChartConfig \/ CreateDefaultChartConfig

SpecChartConfig == InitChartConfig /\ [][NextChartConfig]_vars

(* ------------- specification: the chart of the environment ------------- *)
Text_hour_bar == <<"h", "o", "u", "r", "_", "b", "a", "r">>
Text_day_pie == <<"d", "a", "y", "_", "p", "i", "e">>
Text_month_pie == <<"m", "o", "n", "t", "h", "_", "p", "i", "e">>
Text_day_month_combined ==
    <<"d", "a", "y", "_", "m", "o", "n", "t", "h", "_", "c", "o", "m", "b", "i", "n", "e", "d">>
Text_bogus == <<"b", "o", "g", "u", "s">>
Text_Git_Commit_Analysis ==
    <<"G", "i", "t", " ", "C", "o", "m", "m", "i", "t", " ", "A", "n", "a", "l", "y", "s", "i", "s">>
Text_commit_chart == <<"c", "o", "m", "m", "i", "t", "_", "c", "h", "a", "r", "t">>
Text_50 == <<"5", "0">>
Text_300 == <<"3", "0", "0">>
Text_600 == <<"6", "0", "0">>
Text_1000 == <<"1", "0", "0", "0">>
Text_abc == <<"a", "b", "c">>

\* os.environ.get(key, default)
EnvGet(value, default) == IF value = Absent THEN default ELSE value

\* ChartType(chart_type_str), HOUR_BAR when it raises ValueError
ChartTypeFromEnv(chart_type_str) ==
    CASE chart_type_str = Text_hour_bar -> HOUR_BAR
      [] chart_type_str = Text_day_pie -> DAY_PIE
      [] chart_type_str = Text_month_pie -> MONTH_PIE
      [] chart_type_str = Text_day_month_combined -> DAY_MONTH_COMBINED
      [] OTHER -> HOUR_BAR

\* plot_config.dpi = int(os.environ['DPI']) when DPI is set and is an
\* integer: an assignment, which runs no validator
DpiFromEnv(plot_config, dpi) ==
    IF Truthy(dpi) /\ ParseInt(Strip(dpi)).ok
    THEN [plot_config EXCEPT !.dpi = ParseInt(Strip(dpi)).val]
    ELSE plot_config

ColorsFromEnv(plot_config, primary, secondary) ==
    [plot_config EXCEPT
        !.color_primary = IF Truthy(primary) THEN primary ELSE @,
        !.color_secondary = IF Truthy(secondary) THEN secondary ELSE @]

\* the plot_config of create_chart_from_env
PlotConfigFromEnv(environ) ==
    ColorsFromEnv(DpiFromEnv(PlotConfig(<<>>).value, environ.DPI),
                  environ.COLOR_PRIMARY, environ.COLOR_SECONDARY)

\* config = ChartConfig(...) of create_chart_from_env
ChartConfigFromEnv(environ) ==
    ChartConfig([title |-> EnvGet(environ.CHART_TITLE, Text_Git_Commit_Analysis),
                 output_filename |-> EnvGet(environ.OUTPUT_FILENAME, Text_commit_chart),
                 chart_type |-> ChartTypeFromEnv(EnvGet(environ.CHART_TYPE, Text_hour_bar)),
                 repository_name |-> environ.REPOSITORY_NAME,
                 plot_config |-> PlotConfigFromEnv(environ)])

Environments ==
    [CHART_TYPE : {Absent, Text_day_pie, Text_bogus},
     CHART_TITLE : {Absent, <<>>, Title_T},
     OUTPUT_FILENAME : {Absent, Name_out, Name_bad_slash_name},
     REPOSITORY_NAME : {Absent},
     DPI : {Absent, <<>>, Text_50, Text_300, Text_600, Text_1000, Text_abc},
     COLOR_PRIMARY : {Absent, Color_FF8000, Color_red},
     COLOR_SECONDARY : {Absent, Color_red}]

InitEnv ==
    /\ fs \in {EmptyFs, [EmptyFs EXCEPT ![Path_commit_counts_day] = File(<<Line_1_5>>)]}
    /\ vret = NoValidateCall
    /\ cret = NoChartCall
    /\ mret = NoToolCall
    /\ images = {}
    /\ schemas = {}
    /\ pcfg = NoPaletteInput
    /\ palette = NoPalette
    /\ \E environ \in Environments :
           arguments = [op |-> "create_chart_from_env", environ |-> environ]
    /\ result = NoResult
    /\ server = NoServer
    /\ db = NoDb

\* create_chart_from_env after config = ChartConfig(...) ended as built: a
\* ValidationError leaves the function, otherwise the configuration is
\* handed to create_chart_from_config
ChartFromEnvBuilt(built) ==
    IF built.ok
    THEN /\ ChartWrites(built.value, create_chart_from_config(fs, built.value))
         /\ result' = [op |-> "create_chart_from_env", handed |-> TRUE,
                       config |-> built.value]
    ELSE /\ result' = [op |-> "create_chart_from_env", handed |-> FALSE,
                       config |-> NoConfig]
         /\ UNCHANGED <<cret, images, schemas>>

\* create_chart_from_env()
CreateChartFromEnv ==
    /\ arguments.op = "create_chart_from_env"
    /\ ChartFromEnvBuilt(ChartConfigFromEnv(arguments.environ))
    /\ UNCHANGED <<fs, vret, mret, palVars, arguments, sysVars>>

NextEnv == CreateChartFromEnv

SpecEnv == InitEnv /\ [][NextEnv]_vars

(* ------------- enhanced_mcp_server.py: the chart handlers -------------- *)
\* repo_name = arguments.get("repository_name") or get_repository_name()
RepoName(args, detected) ==
    IF Truthy(args.repository_name) THEN args.repository_name ELSE detected

\* the overrides of a handler, assigned field by field: assignments run no
\* validator; dpi 0 stands for no dpi argument (0 itself is skipped as well)
MergeOverrides(config, args) ==
    [config EXCEPT
        !.plot_config =
            [PlotConfig(<<>>).value EXCEPT
                !.dpi = IF args.dpi # 0 THEN args.dpi ELSE @,
                !.color_primary =
                    IF Truthy(args.color_primary) THEN args.color_primary ELSE @],
        !.title = IF Truthy(args.title) THEN args.title ELSE @,
        !.output_filename =
            IF Truthy(args.output_filename) THEN args.output_filename ELSE @]

\* the data-collection scripts of a handler, then its visualization script
ScriptsOf(chart_type) ==
    CASE chart_type = HOUR_BAR ->
             <<"./commit_history.sh", "./commits_by_hour.sh", "plot_repo_by_hour.py">>
      [] chart_type = DAY_PIE ->
             <<"./commit_history.sh", "./commits_by_day.sh", "plot_pie_day.py">>
      [] chart_type = MONTH_PIE ->
             <<"./commit_history.sh", "./commits_by_month.sh", "plot_pie_month.py">>
      [] chart_type = DAY_MONTH_COMBINED ->
             <<"./commit_history.sh", "./commits_by_day.sh", "./commits_by_month.sh",
               "plot_repo_by_pie.py">>

AllScripts ==
    {"./commit_history.sh", "./commits_by_hour.sh", "./commits_by_day.sh",
     "./commits_by_month.sh", "plot_repo_by_hour.py", "plot_pie_day.py",
     "plot_pie_month.py", "plot_repo_by_pie.py"}

\* the scripts that are run when the script named failing returns non-zero:
\* the handler returns at the first failure
ScriptsRun(scripts, failing) ==
    IF \E j \in 1..Len(scripts) : scripts[j] = failing
    THEN SubSeq(scripts, 1, CHOOSE j \in 1..Len(scripts) : scripts[j] = failing)
    ELSE scripts

\* what a handler leaves: its MCPToolResponse (or the exception that left
\* it), the scripts it ran and the configuration it ran them with
Handled(raised, success, message, scripts, config) ==
    [raised |-> raised, success |-> success, message |-> message,
     scripts |-> scripts, configured |-> config # NoConfig, config |-> config,
     caught |-> FALSE, error_details |-> None, json_raised |-> FALSE,
     escaped |-> FALSE]

\* response.json(**dumps_kwargs) under the Pydantic 2 the project installs
\* (pydantic>=2.0.0): BaseModel.json raises TypeError when it is given any
\* dumps keyword, such as indent
JsonRaises(dumps_kwargs) == dumps_kwargs # {}

\* return [TextContent(type="text", text=response.json(indent=2))] of a
\* handler that built the response r
Returned(r) ==
    IF r.raised THEN r ELSE [r EXCEPT !.json_raised = JsonRaises({"indent"})]

\* from "Collect data" on: run holds the scripts that were run, the last of
\* them the one that failed when failed holds; a failing visualization
\* script answers with error_details=output_file, which is ""
HandleCollected(config, scripts, run, failed) ==
    IF ~failed
    THEN Handled(FALSE, TRUE, "Successfully generated chart", run, config)
    ELSE IF Len(run) = Len(scripts)
         THEN [Handled(FALSE, FALSE, "Failed to generate chart", run, config)
                  EXCEPT !.error_details = ""]
         ELSE Handled(FALSE, FALSE, "Failed to collect data", run, config)

HandleConfigured(chart_type, failing, config) ==
    HandleCollected(config, ScriptsOf(chart_type),
                    ScriptsRun(ScriptsOf(chart_type), failing),
                    \E j \in 1..Len(ScriptsOf(chart_type)) :
                        ScriptsOf(chart_type)[j] = failing)

\* "Validate configuration" of handle_hour_bar_chart: ChartConfig(**config.dict())
HandleValidated(chart_type, failing, built) ==
    IF built.ok THEN HandleConfigured(chart_type, failing, built.value)
    ELSE [Handled(FALSE, FALSE, "Invalid configuration", <<>>, NoConfig)
             EXCEPT !.error_details = "str(e)"]

\* after config = create_default_chart_config(...) ended as default; only
\* the hour handler validates the merged configuration
HandleDefault(chart_type, args, failing, validates, default) ==
    IF ~default.ok THEN Handled(TRUE, FALSE, "ValidationError", <<>>, NoConfig)
    ELSE IF validates
         THEN HandleValidated(chart_type, failing,
                              ChartConfigFromDict(MergeOverrides(default.value, args)))
         ELSE HandleConfigured(chart_type, failing, MergeOverrides(default.value, args))

handle_hour_bar_chart(args, detected, failing) ==
    Returned(HandleDefault(HOUR_BAR, args, failing, TRUE,
                           create_default_chart_config(HOUR_BAR,
                                                       RepoName(args, detected))))

handle_day_pie_chart(args, detected, failing) ==
    Returned(HandleDefault(DAY_PIE, args, failing, FALSE,
                           create_default_chart_config(DAY_PIE,
                                                       RepoName(args, detected))))

handle_month_pie_chart(args, detected, failing) ==
    Returned(HandleDefault(MONTH_PIE, args, failing, FALSE,
                           create_default_chart_config(MONTH_PIE,
                                                       RepoName(args, detected))))

handle_combined_chart(args, detected, failing) ==
    Returned(HandleDefault(DAY_MONTH_COMBINED, args, failing, FALSE,
                           create_default_chart_config(DAY_MONTH_COMBINED,
                                                       RepoName(args, detected))))

\* the except clause of call_tool: an exception that leaves a handler, from
\* its body or from the serialization of its response, is answered with a
\* success=False response, which is serialized with json(indent=2) in turn;
\* an exception raised there leaves call_tool
ErrorExecuting(r) ==
    IF r.raised \/ r.json_raised
    THEN [r EXCEPT !.success = FALSE, !.message = "Error executing",
                   !.caught = TRUE, !.error_details = "str(e)",
                   !.escaped = JsonRaises({"indent"})]
    ELSE r

ChartTools ==
    {"generate_hour_bar_chart", "generate_day_pie_chart", "generate_month_pie_chart",
     "generate_combined_day_month_chart"}

\* call_tool(name, arguments) for the four chart tools
call_tool(name, args, detected, failing) ==
    CASE name = "generate_hour_bar_chart" ->
             ErrorExecuting(handle_hour_bar_chart(args, detected, failing))
      [] name = "generate_day_pie_chart" ->
             ErrorExecuting(handle_day_pie_chart(args, detected, failing))
      [] name = "generate_month_pie_chart" ->
             ErrorExecuting(handle_month_pie_chart(args, detected, failing))
      [] name = "generate_combined_day_month_chart" ->
             ErrorExecuting(handle_combined_chart(args, detected, failing))

(* ---------------- specification: the chart tools ----------------------- *)
ToolArguments ==
    [repository_name : {Absent, Label_My_Repo, Label_org_repo},
     dpi : {0, 50, 300},
     color_primary : {Absent, Color_FF8000, Color_red},
     title : {Absent, <<>>, Title_T},
     output_filename : {Absent, Name_out, Name_bad_slash_name}]

\* what get_repository_name() may answer
DetectedLabels == {Absent, <<>>, Label_RepoViz, Label_org_repo}

InitTools ==
    /\ fs = EmptyFs
    /\ vret = NoValidateCall
    /\ cret = NoChartCall
    /\ mret = NoToolCall
    /\ images = {}
    /\ schemas = {}
    /\ pcfg = NoPaletteInput
    /\ palette = NoPalette
    /\ \E name \in ChartTools : \E args \in ToolArguments :
           arguments = [op |-> name, args |-> args]
    /\ result = NoResult
    /\ server = NoServer
    /\ db = NoDb

\* one call of a chart tool: the repository answers detected to
\* get_repository_name(), and the script named failing, if it is run, fails
CallTool(detected, failing) ==
    /\ arguments.op \in ChartTools
    /\ result' = [op |-> arguments.op, detected |-> detected, failing |-> failing,
                  ret |-> call_tool(arguments.op, arguments.args, detected, failing)]
    /\ UNCHANGED <<fs, valVars, chartVars, palVars, arguments, sysVars>>

\* the chart kind of a chart tool
KindOfTool(name) ==
    CASE name = "generate_hour_bar_chart" -> HOUR_BAR
      [] name = "generate_day_pie_chart" -> DAY_PIE
      [] name = "generate_month_pie_chart" -> MONTH_PIE
      [] name = "generate_combined_day_month_chart" -> DAY_MONTH_COMBINED

\* the scripts that may fail in a call of the tool: one of its own, or none
FailingScripts(name) ==
    {ScriptsOf(KindOfTool(name))[j] : j \in 1..Len(ScriptsOf(KindOfTool(name)))}
        \cup {None}

NextTools ==
    \E detected \in DetectedLabels : \E failing \in FailingScripts(arguments.op) :
        CallTool(detected, failing)

SpecTools == InitTools /\ [][NextTools]_vars

(* ---------------- specification: the request loop --------------------- *)
\* what the server loop gets back from call_tool(name, arguments): whether an
\* exception left call_tool, whether one was raised inside the handler, and
\* the fields of the response; plain holds for the text answer that is no
\* MCPToolResponse
Answer(escaped, raised, success, message, error_details, plain) ==
    [escaped |-> escaped, raised |-> raised, success |-> success,
     message |-> message, error_details |-> error_details, plain |-> plain]

AnswerOfChartTool(r) ==
    Answer(r.escaped, r.raised \/ r.json_raised, r.success, r.message,
           r.error_details, FALSE)

\* handle_validate_data built the response r; each return statement
\* serializes its response with json(indent=2), the one of the success
\* response inside the try block, whose except clause builds the failure
\* response, and the others outside it; call_tool answers an exception that
\* leaves the handler through its own except clause
AnswerOfValidateData(r) ==
    IF JsonRaises({"indent"})
    THEN Answer(JsonRaises({"indent"}), TRUE, FALSE, "Error executing", "str(e)", FALSE)
    ELSE Answer(FALSE, FALSE, r.success, r.message, r.error_details, FALSE)

\* call_tool(name, arguments) for every tool name
serve(fsys, request, detected, failing) ==
    IF request.name \in ChartTools
    THEN AnswerOfChartTool(call_tool(request.name, request.args, detected, failing))
    ELSE IF request.name = "validate_commit_data"
    THEN AnswerOfValidateData(handle_validate_data(fsys, request.data_type))
    ELSE Answer(FALSE, FALSE, FALSE, "Unknown tool", None, TRUE)

NoOverrides ==
    [repository_name |-> Absent, dpi |-> 0, color_primary |-> Absent,
     title |-> Absent, output_filename |-> Absent]

ServerArguments ==
    {NoOverrides,
     [NoOverrides EXCEPT !.repository_name = Label_org_repo],
     [NoOverrides EXCEPT !.output_filename = Name_bad_slash_name],
     [NoOverrides EXCEPT !.title = Title_T, !.dpi = 50]}

Requests ==
    [name : ChartTools, args : ServerArguments, data_type : {None}]
        \cup [name : {"validate_commit_data"}, args : {NoOverrides},
              data_type : DataTypeArguments]
        \cup [name : {"no_such_tool"}, args : {NoOverrides}, data_type : {None}]

\* the scripts that may fail while a request is served
FailingDuring(request) ==
    IF request.name \in ChartTools THEN FailingScripts(request.name) ELSE {None}

\* the labels get_repository_name() may answer while a request is served
DetectedDuring(request) ==
    IF request.name \in ChartTools THEN {Label_RepoViz, Label_org_repo}
    ELSE {Label_RepoViz}

InitServer ==
    /\ \E d \in {NoFile, File(<<Line_1_5>>), File(<<Line_x_1>>), File(<<Line_m1_3>>)} :
           fs = [EmptyFs EXCEPT ![Path_commit_counts_day] = d]
    /\ vret = NoValidateCall
    /\ cret = NoChartCall
    /\ mret = NoToolCall
    /\ images = {}
    /\ schemas = {}
    /\ pcfg = NoPaletteInput
    /\ palette = NoPalette
    /\ arguments = NoArguments
    /\ result = NoResult
    /\ server = [escaped |-> FALSE, served |-> 0, raised_before |-> FALSE,
                 failed_before |-> FALSE]
    /\ db = NoDb

\* the loop after call_tool ended as answer; escaped holds once an exception
\* has left call_tool
ServerAfter(answer) ==
    [escaped |-> server.escaped \/ answer.escaped,
     served |-> IF server.served < MaxServed THEN server.served + 1 ELSE MaxServed,
     raised_before |-> server.served > 0 /\ (server.raised_before \/ result.answer.raised),
     failed_before |-> server.served > 0 /\
                       (server.failed_before \/ ~result.answer.success)]

\* the server loop takes one request and hands it to call_tool
ServeRequest(request, detected, failing) ==
    /\ arguments' = [op |-> "call_tool", request |-> request]
    /\ result' = [op |-> "call_tool", detected |-> detected, failing |-> failing,
                  answer |-> serve(fs, request, detected, failing)]
    /\ server' = ServerAfter(serve(fs, request, detected, failing))
    /\ UNCHANGED <<fs, valVars, chartVars, palVars, db>>

NextServer ==
    \E request \in Requests : \E detected \in DetectedDuring(request) :
        \E failing \in FailingDuring(request) : ServeRequest(request, detected, failing)

SpecServer == InitServer /\ [][NextServer]_vars

(* ------------------ configuration as a JSON object -------------------- *)
\* JSON null, and a JSON array of the items of a tuple
JsonNull == <<"null">>

JsonArray(items) == [array |-> items]

\* the value of a ChartType member, as the JSON string holds it
ChartTypeValue(chart_type) ==
    CASE chart_type = HOUR_BAR -> Text_hour_bar
      [] chart_type = DAY_PIE -> Text_day_pie
      [] chart_type = MONTH_PIE -> Text_month_pie
      [] chart_type = DAY_MONTH_COMBINED -> Text_day_month_combined

\* ChartType(value) on validation: the member of that value, or no member
ChartTypeOfValue(value) ==
    IF \E c \in ChartType : ChartTypeValue(c) = value
    THEN CHOOSE c \in ChartType : ChartTypeValue(c) = value
    ELSE None

\* the JSON object of a PlotConfig and of a ChartConfig: the tuple becomes an
\* array, the enum member its value, None becomes null
JsonDumpPlotConfig(plot_config) ==
    [plot_config EXCEPT !.figsize = JsonArray(plot_config.figsize)]

JsonDump(config) ==
    [config EXCEPT
        !.chart_type = ChartTypeValue(config.chart_type),
        !.repository_name = IF config.repository_name = Absent THEN JsonNull ELSE @,
        !.plot_config = JsonDumpPlotConfig(config.plot_config)]

\* config.json(**dumps_kwargs): the TypeError of BaseModel.json, or the text
\* of the JSON object
ExportJson(config, dumps_kwargs) ==
    IF JsonRaises(dumps_kwargs)
    THEN [raised |-> TRUE, object |-> JsonNull]
    ELSE [raised |-> FALSE, object |-> JsonDump(config)]

PlotConfigKeys ==
    {"dpi", "figsize", "color_primary", "color_secondary", "font_size", "grid_alpha",
     "title_fontsize"}

ChartConfigKeys == {"title", "output_filename", "chart_type", "repository_name", "plot_config"}

\* the value of one key of a parsed plot_config object, as validation reads it
PlotFieldOfJson(key, value) == IF key = "figsize" THEN value.array ELSE value

\* PlotConfig(**object): unknown keys are ignored, absent fields take their
\* defaults, every field is validated
PlotConfigOfJson(object) ==
    PlotConfig([k \in (DOMAIN object) \cap PlotConfigKeys |->
                   PlotFieldOfJson(k, object[k])])

\* the keyword arguments ChartConfig reads from a parsed object whose
\* plot_config, when it has one, was read as plot
ChartFieldOfJson(key, value, plot) ==
    CASE key = "chart_type" -> ChartTypeOfValue(value)
      [] key = "repository_name" -> IF value = JsonNull THEN Absent ELSE value
      [] key = "plot_config" -> IF plot.ok THEN plot.value ELSE DefaultPlotConfig
      [] OTHER -> value

ChartConfigRead(object, plot) ==
    LET kwargs == [k \in (DOMAIN object) \cap ChartConfigKeys |->
                      ChartFieldOfJson(k, object[k], plot)]
        missing == {"title", "output_filename", "chart_type"} \ DOMAIN object
    IN  IF missing # {} THEN Built(NoConfig, missing)
        ELSE Built(kwargs @@ [repository_name |-> Absent,
                              plot_config |-> DefaultPlotConfig],
                   ChartConfigErrors(kwargs, plot.errors))

\* ChartConfig(**json.load(f))
ChartConfigOfJson(object) ==
    ChartConfigRead(object,
                    IF "plot_config" \in DOMAIN object
                    THEN PlotConfigOfJson(object.plot_config)
                    ELSE PlotConfig(<<>>))

(* ---------------- specification: configuration as JSON ----------------- *)
\* valid configurations
JsonConfigs ==
    {[title |-> k[1], output_filename |-> k[2], chart_type |-> k[3],
      repository_name |-> k[4],
      plot_config |-> [DefaultPlotConfig EXCEPT !.dpi = k[5], !.color_primary = k[6],
                                                !.figsize = k[7]]] :
         k \in {Title_T, Text_Commits_by_Hour} \X {Name_out, Name_a_dot_b} \X ChartType
                \X {Absent, Label_RepoViz} \X {72, 300} \X {Color_4e79a7, Color_FF8000}
                \X {<<12, 8>>, <<16, 9>>}}

RequiredOnly ==
    [title |-> Title_T, output_filename |-> Name_out, chart_type |-> Text_day_pie]

\* parsed JSON objects: required keys only, an unknown key, a partial
\* plot_config with an unknown key, null for the name, and invalid ones
JsonObjects ==
    {RequiredOnly,
     RequiredOnly @@ [comment |-> Title_T],
     RequiredOnly @@ [repository_name |-> JsonNull],
     RequiredOnly @@ [repository_name |-> Label_RepoViz, version |-> JsonArray(<<1>>)],
     RequiredOnly @@ [plot_config |-> [dpi |-> 150]],
     RequiredOnly @@ [plot_config |-> [dpi |-> 150, theme |-> Title_T]],
     RequiredOnly @@ [plot_config |-> [figsize |-> JsonArray(<<16, 9>>),
                                       color_primary |-> Color_FF8000]],
     RequiredOnly @@ [plot_config |-> [dpi |-> 50]],
     RequiredOnly @@ [plot_config |-> [color_secondary |-> Color_red]],
     [title |-> Title_T, output_filename |-> Name_out, chart_type |-> Text_bogus],
     [title |-> Title_T, output_filename |-> Name_bad_slash_name,
      chart_type |-> Text_hour_bar],
     [title |-> Title_T, chart_type |-> Text_hour_bar],
     [output_filename |-> Name_out, chart_type |-> Text_hour_bar, comment |-> Title_T]}

InitJson ==
    /\ fs = EmptyFs
    /\ vret = NoValidateCall
    /\ cret = NoChartCall
    /\ mret = NoToolCall
    /\ images = {}
    /\ schemas = {}
    /\ pcfg = NoPaletteInput
    /\ palette = NoPalette
    /\ \/ \E config \in JsonConfigs : arguments = [op |-> "export_import", config |-> config]
       \/ \E object \in JsonObjects : arguments = [op |-> "import", object |-> object]
    /\ result = NoResult
    /\ server = NoServer
    /\ db = NoDb

\* what example_json_export_import leaves: the exported text, and the
\* configuration read back from it when the export did not raise
ExportedThenImported(exported) ==
    [op |-> "export_import", exported |-> exported,
     imported |-> IF exported.raised THEN Built(NoConfig, {"json"})
                  ELSE ChartConfigOfJson(exported.object)]

\* config_json = config.json(indent=2), written to a file, json.load of the
\* file, ChartConfig(**imported_data)
ExportImportJson ==
    /\ arguments.op = "export_import"
    /\ result' = ExportedThenImported(ExportJson(arguments.config, {"indent"}))
    /\ UNCHANGED <<fs, valVars, chartVars, palVars, arguments, sysVars>>

\* main with --config: config = ChartConfig(**json.load(f))
ImportJsonConfig ==
    /\ arguments.op = "import"
    /\ result' = [op |-> "import", imported |-> ChartConfigOfJson(arguments.object)]
    /\ UNCHANGED <<fs, valVars, chartVars, palVars, arguments, sysVars>>

NextJson == ExportImportJson \/ ImportJsonConfig

SpecJson == InitJson /\ [][NextJson]_vars

(* ------------------------- database_schema.py ------------------------- *)
(* The database is three tables, each a sequence of rows in insertion       *)
(* order.  The engine is SQLite (the default database_url), whose integer   *)
(* primary key is one more than the largest id in the table.  Only the      *)
(* columns that the operations below read or decide are kept; the id of a   *)
(* commit summary, which no operation reads, is not.                        *)
NoRow == [id |-> 0]

EmptyDb == [open |-> TRUE, repositories |-> <<>>, commits |-> <<>>, summaries |-> <<>>]

\* the largest id of a table, 0 when it is empty
MaxId(rows) ==
    IF rows = <<>> THEN 0
    ELSE CHOOSE m \in {rows[j].id : j \in DOMAIN rows} : \A j \in DOMAIN rows : rows[j].id <= m

\* query(...).filter(...).first(): the first of the rows that match (hits
\* holds their positions), or None
First(rows, hits) ==
    IF hits = {} THEN NoRow ELSE rows[CHOOSE j \in hits : \A k \in hits : j <= k]

\* mutant: a repository that is found takes the remote_url of the call
get_or_create_repository_Overwrite(database, name, remote_url) ==
    LET found == {j \in DOMAIN database.repositories : database.repositories[j].name = name}
        created == [id |-> MaxId(database.repositories) + 1, name |-> name,
                    remote_url |-> remote_url]
    IN  IF found # {}
        THEN LET j == CHOOSE k \in found : TRUE
                 changed == [database.repositories[j] EXCEPT !.remote_url = remote_url]
             IN  [db |-> [database EXCEPT !.repositories[j] = changed], ret |-> changed]
        ELSE [db |-> [database EXCEPT !.repositories = Append(@, created)], ret |-> created]

\* DatabaseManager.get_or_create_repository(name, remote_url)
get_or_create_repository(database, name, remote_url) ==
    LET repo == First(database.repositories,
                      {j \in DOMAIN database.repositories :
                          database.repositories[j].name = name})
        created == [id |-> MaxId(database.repositories) + 1, name |-> name,
                    remote_url |-> remote_url]
    IN  IF repo # NoRow
        THEN [db |-> database, ret |-> repo]
        ELSE [db |-> [database EXCEPT !.repositories = Append(@, created)], ret |-> created]

\* datetime: the proleptic Gregorian ordinal of a date, day 1 being 0001-01-01
IsLeap(year) == year % 4 = 0 /\ (year % 100 # 0 \/ year % 400 = 0)

DaysBeforeYear(year) ==
    LET y == year - 1 IN y * 365 + (y \div 4) - (y \div 100) + (y \div 400)

DaysBeforeMonth(year, month) ==
    <<0, 31, 59, 90, 120, 151, 181, 212, 243, 273, 304, 334>>[month]
    + (IF month > 2 /\ IsLeap(year) THEN 1 ELSE 0)

ToOrdinal(timestamp) ==
    DaysBeforeYear(timestamp.year) + DaysBeforeMonth(timestamp.year, timestamp.month)
    + timestamp.day

\* datetime.weekday(): (toordinal() + 6) % 7
weekday(timestamp) == (ToOrdinal(timestamp) + 6) % 7

\* DatabaseManager.add_commit(repo_id, commit_data)
add_commit(database, repo_id, commit_data) ==
    LET existing == First(database.commits,
                          {j \in DOMAIN database.commits :
                              /\ database.commits[j].repository_id = repo_id
                              /\ database.commits[j].commit_hash = commit_data.commit_hash})
        commit == [id |-> MaxId(database.commits) + 1,
                   repository_id |-> repo_id,
                   commit_hash |-> commit_data.commit_hash,
                   timestamp |-> commit_data.timestamp,
                   hour |-> commit_data.timestamp.hour,
                   day_of_week |-> weekday(commit_data.timestamp),
                   month |-> commit_data.timestamp.month,
                   year |-> commit_data.timestamp.year]
    IN  IF existing # NoRow
        THEN [db |-> database, ret |-> existing]
        ELSE [db |-> [database EXCEPT !.commits = Append(@, commit)], ret |-> commit]

\* the three loops of update_commit_summaries: range(24), range(7), range(1, 13)
SummaryPeriods ==
    [j \in 1..24 |-> [period_type |-> HOUR, period_value |-> j - 1]]
    \o [j \in 1..7 |-> [period_type |-> DAY, period_value |-> j - 1]]
    \o [j \in 1..12 |-> [period_type |-> MONTH, period_value |-> j]]

\* the column of commits that a loop filters on
PeriodColumn(commit, period_type) ==
    CASE period_type = HOUR -> commit.hour
      [] period_type = DAY -> commit.day_of_week
      [] period_type = MONTH -> commit.month

\* session.query(Commit).filter(repository_id == repo_id, <column> == value).all()
CommitsOfPeriod(commits, repo_id, p) ==
    SelectSeq(commits, LAMBDA c : c.repository_id = repo_id
                                  /\ PeriodColumn(c, p.period_type) = p.period_value)

\* mutant: the summaries of every repository are deleted, not only repo_id's
update_commit_summaries_DeleteAll(database, repo_id) ==
    LET present == SelectSeq(SummaryPeriods,
                       LAMBDA p : CommitsOfPeriod(database.commits, repo_id, p) # <<>>)
        added == [j \in 1..Len(present) |->
                     [repository_id |-> repo_id,
                      period_type |-> present[j].period_type,
                      period_value |-> present[j].period_value,
                      commit_count |->
                          Len(CommitsOfPeriod(database.commits, repo_id, present[j]))]]
    IN  [database EXCEPT !.summaries = added]

\* DatabaseManager.update_commit_summaries(repo_id): delete the repository's
\* summaries, add one per period that has commits, commit
update_commit_summaries(database, repo_id) ==
    LET kept == SelectSeq(database.summaries, LAMBDA s : s.repository_id # repo_id)
        present == SelectSeq(SummaryPeriods,
                       LAMBDA p : CommitsOfPeriod(database.commits, repo_id, p) # <<>>)
        added == [j \in 1..Len(present) |->
                     [repository_id |-> repo_id,
                      period_type |-> present[j].period_type,
                      period_value |-> present[j].period_value,
                      commit_count |->
                          Len(CommitsOfPeriod(database.commits, repo_id, present[j]))]]
    IN  [database EXCEPT !.summaries = kept \o added]

\* the files import_commit_data_from_files reads, in the working directory
Path_cwd_commit_counts ==
    <<".", "/", "c", "o", "m", "m", "i", "t", "_", "c", "o", "u", "n", "t", "s",
      ".", "t", "x", "t">>

Path_cwd_commit_counts_day ==
    <<".", "/", "c", "o", "m", "m", "i", "t", "_", "c", "o", "u", "n", "t", "s",
      "_", "d", "a", "y", ".", "t", "x", "t">>

Path_cwd_commit_counts_month ==
    <<".", "/", "c", "o", "m", "m", "i", "t", "_", "c", "o", "u", "n", "t", "s",
      "_", "m", "o", "n", "t", "h", ".", "t", "x", "t">>

ImportFiles ==
    <<[file_path |-> Path_cwd_commit_counts, period_type |-> HOUR],
      [file_path |-> Path_cwd_commit_counts_day, period_type |-> DAY],
      [file_path |-> Path_cwd_commit_counts_month, period_type |-> MONTH]>>

\* The session of an import: rows holds the table with the changes made to
\* the objects loaded from it, new the objects added and not yet flushed.
\* The session is made with autoflush=False, so a query sees rows only.
SameSummaryKey(s, repo_id, period_type, period_value) ==
    /\ s.repository_id = repo_id
    /\ s.period_type = period_type
    /\ s.period_value = period_value

\* the for loop of _update_summaries_from_file, from item k on
RECURSIVE UpdateSummaries(_, _, _, _, _)
UpdateSummaries(session, commit_data, k, repo_id, period_type) ==
    IF k > Len(commit_data) THEN session
    ELSE LET item == commit_data[k]
             found == {j \in DOMAIN session.rows :
                          SameSummaryKey(session.rows[j], repo_id, period_type, item.period)}
             summary == [repository_id |-> repo_id, period_type |-> period_type,
                         period_value |-> item.period, commit_count |-> item.count]
             after ==
                 IF found # {}
                 THEN [session EXCEPT
                          !.rows[CHOOSE j \in found : \A i \in found : j <= i].commit_count =
                              item.count]
                 ELSE [session EXCEPT !.new = Append(@, summary)]
         IN  UpdateSummaries(after, commit_data, k + 1, repo_id, period_type)

\* _update_summaries_from_file(file_path, period_type): FileNotFoundError and
\* ValueError are printed and the file contributes nothing
UpdateSummariesFromFile(session, fsys, file, repo_id) ==
    LET commit_data == validate_commit_data_file(fsys, file.file_path)
    IN  IF commit_data.status = "ok"
        THEN UpdateSummaries(session, commit_data.records, 1, repo_id, file.period_type)
        ELSE session

\* the flush of session.commit(): the new objects are inserted in the order added
Flushed(session) == session.rows \o session.new

\* UniqueConstraint uq_repo_period of commit_summaries
UniquePeriodViolated(rows) ==
    \E i, j \in DOMAIN rows :
        /\ i < j
        /\ SameSummaryKey(rows[i], rows[j].repository_id, rows[j].period_type,
                          rows[j].period_value)

\* import_commit_data_from_files(db_manager, repo_name): the repository is
\* committed by get_or_create_repository; the summaries of the three files
\* are committed together, and an IntegrityError of the flush rolls all of
\* them back
import_commit_data_from_files(database, fsys, repo_name) ==
    LET made == get_or_create_repository(database, repo_name, None)
        repo == made.ret
        opened == [rows |-> made.db.summaries, new |-> <<>>]
        hours == UpdateSummariesFromFile(opened, fsys, ImportFiles[1], repo.id)
        days == UpdateSummariesFromFile(hours, fsys, ImportFiles[2], repo.id)
        months == UpdateSummariesFromFile(days, fsys, ImportFiles[3], repo.id)
        flushed == Flushed(months)
    IN  IF UniquePeriodViolated(flushed)
        THEN [db |-> made.db, repo |-> repo, committed |-> FALSE]
        ELSE [db |-> [made.db EXCEPT !.summaries = flushed], repo |-> repo,
              committed |-> TRUE]

(* --------------------- the database, operation by operation ----------- *)
Name_RepoViz == "RepoViz"
Name_Leora == "Leora"
Url_origin == "https://example.org/RepoViz.git"

\* the calls of get_or_create_repository that are tried
RepositoryCalls ==
    {<<Name_RepoViz, None>>, <<Name_RepoViz, Url_origin>>, <<Name_Leora, None>>}

\* a Saturday, a Sunday and a Monday; the first two in the same hour and month
Timestamp_Sat == [year |-> 2024, month |-> 1, day |-> 6, hour |-> 10]
Timestamp_Sun == [year |-> 2024, month |-> 1, day |-> 7, hour |-> 10]
Timestamp_Mon == [year |-> 2024, month |-> 3, day |-> 4, hour |-> 23]

Timestamps == {Timestamp_Sat, Timestamp_Sun, Timestamp_Mon}

\* the (repository id, commit hash) pairs that are tried
CommitKeys == {<<1, "a">>, <<1, "b">>, <<2, "a">>}

RepositoryIds(database) == {database.repositories[j].id : j \in DOMAIN database.repositories}

InitDb ==
    /\ fs = EmptyFs
    /\ vret = NoValidateCall
    /\ cret = NoChartCall
    /\ mret = NoToolCall
    /\ images = {}
    /\ schemas = {}
    /\ pcfg = NoPaletteInput
    /\ palette = NoPalette
    /\ arguments = NoArguments
    /\ result = NoResult
    /\ server = NoServer
    /\ db = EmptyDb

GetOrCreateRepository(name, remote_url) ==
    LET made == get_or_create_repository(db, name, remote_url)
    IN  /\ db' = made.db
        /\ result' = [op |-> "get_or_create_repository", name |-> name, ret |-> made.ret]
        /\ UNCHANGED <<fs, valVars, chartVars, palVars, arguments, server>>

\* add_commit for a repository that get_or_create_repository returned
AddCommit(repo_id, commit_hash, timestamp) ==
    LET added == add_commit(db, repo_id, [commit_hash |-> commit_hash,
                                          timestamp |-> timestamp])
    IN  /\ repo_id \in RepositoryIds(db)
        /\ db' = added.db
        /\ result' = [op |-> "add_commit", repo_id |-> repo_id, timestamp |-> timestamp,
                      ret |-> added.ret]
        /\ UNCHANGED <<fs, valVars, chartVars, palVars, arguments, server>>

UpdateCommitSummaries(repo_id) ==
    /\ repo_id \in RepositoryIds(db)
    /\ db' = update_commit_summaries(db, repo_id)
    /\ result' = [op |-> "update_commit_summaries", repo_id |-> repo_id]
    /\ UNCHANGED <<fs, valVars, chartVars, palVars, arguments, server>>

NextDb ==
    \/ \E call \in RepositoryCalls : GetOrCreateRepository(call[1], call[2])
    \/ \E key \in CommitKeys : \E timestamp \in Timestamps :
           AddCommit(key[1], key[2], timestamp)
    \/ \E repo_id \in 1..2 : UpdateCommitSummaries(repo_id)

SpecDb == InitDb /\ [][NextDb]_vars

(* ----------------------- the import, file by file --------------------- *)
CwdPaths ==
    {Path_cwd_commit_counts, Path_cwd_commit_counts_day, Path_cwd_commit_counts_month}

\* the working directory holding the three data files
ImportFs(hours, days, months) ==
    [p \in AllPaths \cup CwdPaths |->
        CASE p = Path_cwd_commit_counts -> hours
          [] p = Path_cwd_commit_counts_day -> days
          [] p = Path_cwd_commit_counts_month -> months
          [] OTHER -> NoFile]

HourFiles == {NoFile, File(<<Line_1_5>>)}

DayFiles ==
    {NoFile, File(<<Line_1_5>>), File(<<Line_6_2, Line_6_9>>),
     File(<<Line_6_2, Line_1_0>>), File(<<Line_x_1>>)}

MonthFiles == {NoFile, File(<<Line_1_5>>), File(<<Line_1_5, Line_1_0>>)}

InitImport ==
    /\ \E hours \in HourFiles : \E days \in DayFiles : \E months \in MonthFiles :
           fs = ImportFs(hours, days, months)
    /\ vret = NoValidateCall
    /\ cret = NoChartCall
    /\ mret = NoToolCall
    /\ images = {}
    /\ schemas = {}
    /\ pcfg = NoPaletteInput
    /\ palette = NoPalette
    /\ arguments = NoArguments
    /\ result = NoResult
    /\ server = NoServer
    /\ db = EmptyDb

ImportCommitDataFromFiles(repo_name) ==
    LET imported == import_commit_data_from_files(db, fs, repo_name)
    IN  /\ db' = imported.db
        /\ result' = [op |-> "import_commit_data_from_files", repo_name |-> repo_name,
                      repo_id |-> imported.repo.id, committed |-> imported.committed]
        /\ UNCHANGED <<fs, valVars, chartVars, palVars, arguments, server>>

\* the commits and summaries that an import can find in the database
NextImport ==
    \/ ImportCommitDataFromFiles(Name_RepoViz)
    \/ \E timestamp \in {Timestamp_Sun, Timestamp_Mon} : AddCommit(1, "a", timestamp)
    \/ UpdateCommitSummaries(1)

SpecImport == InitImport /\ [][NextImport]_vars

(* ------------------- properties of the validator ---------------------- *)
\* the call whose result vret holds, and the file it read
Validated == vret.op = "validate_commit_data_file"

ReadLines == fs[vret.file_path].lines

ReadExisting == Validated /\ fs[vret.file_path].exists

\* the valid range of each period kind
InRange(kind, period) ==
    CASE kind = HOUR -> 0 <= period /\ period <= 23
      [] kind = DAY -> 0 <= period /\ period <= 6
      [] kind = MONTH -> 1 <= period /\ period <= 12
      [] OTHER -> FALSE

\* the period kind a path stands for: hour, then day, then month
KindOfPath(path) ==
    IF Contains(<<"h", "o", "u", "r">>, path) THEN HOUR
    ELSE IF Contains(<<"d", "a", "y">>, path) THEN DAY
    ELSE IF Contains(<<"m", "o", "n", "t", "h">>, path) THEN MONTH
    ELSE None

IsBlankLine(line) == \A k \in 1..Len(line) : line[k] \in Whitespace

\* the two integers written on each line of the line set that holds two
\* integers; <<>> for every other line
IntsOn(line) ==
    CASE line = Line_08_10 -> <<8, 10>>
      [] line = Line_0_0 -> <<0, 0>>
      [] line = Line_24_1 -> <<24, 1>>
      [] line = Line_m1_3 -> <<-1, 3>>
      [] line = Line_3_m5 -> <<3, -5>>
      [] line = Line_6_9 -> <<6, 9>>
      [] line = Line_1_5 -> <<1, 5>>
      [] line = Line_1_0 -> <<1, 0>>
      [] line = Line_6_2 -> <<6, 2>>
      [] line = Line_7_0 -> <<7, 0>>
      [] OTHER -> <<>>

TwoIntegers(line) == IntsOn(line) # <<>>

\* physical line numbers of the non-blank lines, in file order
NonBlank(lines) == {k \in 1..Len(lines) : ~IsBlankLine(lines[k])}

\* the first non-blank line that does not consist of two integer tokens; 0 if none
FirstMalformed(lines) ==
    LET bad == {k \in NonBlank(lines) : ~TwoIntegers(lines[k])}
    IN  IF bad = {} THEN 0 ELSE CHOOSE k \in bad : \A j \in bad : k <= j

RECURSIVE ExpectedRecords(_, _, _)
ExpectedRecords(lines, k, kind) ==
    IF k > Len(lines) THEN <<>>
    ELSE IF IsBlankLine(lines[k]) THEN ExpectedRecords(lines, k + 1, kind)
    ELSE <<[period |-> IntsOn(lines[k])[1], count |-> IntsOn(lines[k])[2],
            period_type |-> kind]>> \o ExpectedRecords(lines, k + 1, kind)

\* C1: every record returned by validate_commit_data_file has its period
\* inside the range of its period_type (HOUR 0..23, DAY 0..6, MONTH 1..12);
\* a period outside the range fails the call
C1_PeriodWithinKindRange ==
    (Validated /\ vret.ret.status = "ok") =>
        \A i \in 1..Len(vret.ret.records) :
            InRange(vret.ret.records[i].period_type, vret.ret.records[i].period)

\* C3: for an existing file whose path contains none of "hour", "day",
\* "month", the call fails with the period-kind-undeterminable error,
\* whatever the file holds
C3_NoHintAlwaysFails ==
    (ReadExisting /\ KindOfPath(vret.file_path) = None) =>
        (vret.ret.status = "error" /\ vret.ret.cause = "CannotDeterminePeriodType")

\* C4: the kind of every returned record is the one the path stands for by
\* case-sensitive substring match in the priority hour, day, month:
\* monthly_hours.txt is HOUR, day_month.txt is DAY, month.txt is MONTH, and
\* HOUR.txt (upper case) gives no kind, so no record is returned from it
C4_KindByPriority ==
    (ReadExisting /\ vret.ret.status = "ok") =>
        /\ \A i \in 1..Len(vret.ret.records) :
               /\ vret.ret.records[i].period_type = KindOfPath(vret.file_path)
               /\ vret.file_path = Path_monthly_hours =>
                      vret.ret.records[i].period_type = HOUR
               /\ vret.file_path = Path_day_month =>
                      vret.ret.records[i].period_type = DAY
               /\ vret.file_path = Path_month =>
                      vret.ret.records[i].period_type = MONTH
        /\ vret.file_path \in {Path_HOUR, Path_counts} => vret.ret.records = <<>>

C4_Witness ==
    /\ ReadExisting
    /\ vret.file_path = Path_monthly_hours
    /\ vret.ret.status = "ok"
    /\ Len(vret.ret.records) >= 2
    /\ vret.ret.records[1].period_type = HOUR

\* C5 as claimed: when line k is the first non-blank line that is not two
\* integer tokens, the call raises an error naming line k and returns no
\* records
C5_ErrorNamesFirstMalformedLine ==
    (ReadExisting /\ FirstMalformed(ReadLines) # 0) =>
        /\ vret.ret.status = "error"
        /\ vret.ret.line = FirstMalformed(ReadLines)
        /\ vret.ret.records = <<>>

\* non-blank lines of two integers that the call still rejects: the count
\* is negative, or the path gives no period kind
RejectedBefore(lines, k, path) ==
    {j \in NonBlank(lines) :
        j < k /\ TwoIntegers(lines[j]) /\ (IntsOn(lines[j])[2] < 0 \/ KindOfPath(path) = None)}

\* C5 amended: when line k is the first non-blank line that is not two
\* integer tokens, the call raises a ValueError and returns no records; the
\* error names line k when every non-blank line before k is accepted, and
\* otherwise the first earlier line that is rejected
C5_ErrorNamesFirstRejectedLine ==
    (ReadExisting /\ FirstMalformed(ReadLines) # 0) =>
        LET k == FirstMalformed(ReadLines)
            earlier == RejectedBefore(ReadLines, k, vret.file_path)
        IN  /\ vret.ret.status = "error"
            /\ vret.ret.exc = "ValueError"
            /\ vret.ret.records = <<>>
            /\ earlier = {} => vret.ret.line = k
            /\ earlier # {} =>
                   (vret.ret.line \in earlier /\ \A j \in earlier : vret.ret.line <= j)

C5_Witness ==
    /\ ReadExisting
    /\ Len(ReadLines) = 3
    /\ ReadLines[1] = Line_08_10
    /\ FirstMalformed(ReadLines) = 2
    /\ vret.ret.status = "error"
    /\ vret.ret.line = 2
    /\ vret.ret.records = <<>>

\* C6: when every non-blank line is two integers, in range for the kind of
\* the path, with a count >= 0, the call returns one record per non-blank
\* line, in line order, holding the integers of that line; a file with no
\* non-blank line gives the empty sequence, not an error
C6_OneRecordPerLine ==
    ReadExisting =>
        /\ NonBlank(ReadLines) = {} =>
               (vret.ret.status = "ok" /\ vret.ret.records = <<>>)
        /\ ( /\ KindOfPath(vret.file_path) # None
             /\ \A k \in NonBlank(ReadLines) :
                    /\ TwoIntegers(ReadLines[k])
                    /\ InRange(KindOfPath(vret.file_path), IntsOn(ReadLines[k])[1])
                    /\ IntsOn(ReadLines[k])[2] >= 0 )
           => /\ vret.ret.status = "ok"
              /\ vret.ret.records =
                     ExpectedRecords(ReadLines, 1, KindOfPath(vret.file_path))

C6_Witness ==
    /\ ReadExisting
    /\ ReadLines = <<Line_08_10, Line_blank, Line_6_9>>
    /\ vret.ret.status = "ok"
    /\ vret.ret.records =
           <<[period |-> 8, count |-> 10, period_type |-> HOUR],
             [period |-> 6, count |-> 9, period_type |-> HOUR]>>

(* ---------------------- properties of the loaders --------------------- *)
\* a well-formed, in-range, non-empty data file of the given kind
GoodFileFor(kind, file) ==
    /\ file.exists
    /\ NonBlank(file.lines) # {}
    /\ \A k \in NonBlank(file.lines) :
           /\ TwoIntegers(file.lines[k])
           /\ InRange(kind, IntsOn(file.lines[k])[1])
           /\ IntsOn(file.lines[k])[2] >= 0

\* the path each data type is documented to be stored under
DataFileOf(kind) ==
    CASE kind = HOUR -> Path_commit_counts
      [] kind = DAY -> Path_commit_counts_day
      [] kind = MONTH -> Path_commit_counts_month

\* C2: for each data type T, a well-formed, in-range, non-empty data file
\* for T loads as records of kind T, through load_commit_data and through
\* the validate_commit_data tool
C2_MappedFileLoadsAsItsKind ==
    \A kind \in PeriodType :
        GoodFileFor(kind, fs[DataFileOf(kind)]) =>
            /\ (vret.op = "load_commit_data" /\ vret.file_path = DataFileOf(kind)) =>
                   /\ vret.ret.status = "ok"
                   /\ vret.ret.records # <<>>
                   /\ \A i \in 1..Len(vret.ret.records) :
                          vret.ret.records[i].period_type = kind
            /\ (mret.op = "validate_commit_data" /\ mret.data_type = kind) =>
                   /\ mret.ret.success
                   /\ mret.ret.total_records > 0
                   /\ \A i \in 1..Len(mret.ret.records) :
                          mret.ret.records[i].period_type = kind

(* ----------------------- properties of the charts --------------------- *)
Charted(chart_type) == cret.op = "create_chart_from_config" /\ cret.chart_type = chart_type

\* the records a data file gives when it loads, and whether it loads
Loaded(kind) == load_commit_data(fs, kind).status = "ok"

RecordsOf(kind) == load_commit_data(fs, kind).records

\* the count of the last record of data for a period; 0 when there is none
LastCount(data, period) ==
    LET at == {k \in 1..Len(data) : data[k].period = period}
    IN  IF at = {} THEN 0 ELSE data[CHOOSE k \in at : \A j \in at : j <= k].count

\* the categories (1-based slots) whose final count is positive, and the
\* j-th of them in category order
Visible(counts) == {c \in 1..Len(counts) : counts[c] > 0}

NthVisible(counts, j) ==
    CHOOSE c \in Visible(counts) : Cardinality({x \in Visible(counts) : x <= c}) = j

\* the pie shows exactly the visible categories, in order, each label with
\* its own count, and one color per category
PieShows(pie, names, counts) ==
    /\ Len(pie.labels) = Cardinality(Visible(counts))
    /\ Len(pie.counts) = Cardinality(Visible(counts))
    /\ Len(pie.colors) = Cardinality(Visible(counts))
    /\ \A j \in 1..Len(pie.labels) :
           /\ pie.labels[j] = names[NthVisible(counts, j)]
           /\ pie.counts[j] = counts[NthVisible(counts, j)]

\* C7: in a day or month pie the slot of each category holds the count of
\* the last record of that category's period, or 0 when no record has that
\* period; the pie shows exactly the slots with a positive count, in
\* category order, each label with its count, and one color per shown slot
C7_SlotsFollowOwnRecords ==
    /\ (Charted(DAY_PIE) /\ cret.ret.status = "ok") =>
           /\ Len(cret.ret.day_counts) = 7
           /\ \A c \in 1..7 :
                  cret.ret.day_counts[c] = LastCount(cret.ret.day_data, c - 1)
           /\ Len(cret.ret.pies) = 1
           /\ PieShows(cret.ret.pies[1],
                       <<"Sunday", "Monday", "Tuesday", "Wednesday", "Thursday",
                         "Friday", "Saturday">>, cret.ret.day_counts)
    /\ (Charted(MONTH_PIE) /\ cret.ret.status = "ok") =>
           /\ Len(cret.ret.month_counts) = 12
           /\ \A c \in 1..12 :
                  cret.ret.month_counts[c] = LastCount(cret.ret.month_data, c)
           /\ Len(cret.ret.pies) = 1
           /\ PieShows(cret.ret.pies[1],
                       <<"January", "February", "March", "April", "May", "June", "July",
                         "August", "September", "October", "November", "December">>,
                       cret.ret.month_counts)

\* every category of the loaded data has count 0 (also when there is no record)
AllZero(kind, periods) ==
    Loaded(kind) /\ \A period \in periods : LastCount(RecordsOf(kind), period) = 0

NoDataFailure ==
    /\ cret.ret.status = "error"
    /\ cret.ret.exc = "ValueError"
    /\ cret.ret.cause = "NoData"
    /\ cret.ret.palettes = 0
    /\ cret.ret.pies = <<>>
    /\ ~cret.ret.saved

\* C9: when every day (for the day pie) or every month (for the month pie)
\* has count 0, also with no record at all, the chart fails with the no-data
\* error before a palette is computed and without saving an image; and no
\* pie is ever given a palette of length 0
C9_AllZeroFailsWithNoData ==
    /\ (Charted(DAY_PIE) /\ AllZero("day", 0..6)) => NoDataFailure
    /\ (Charted(MONTH_PIE) /\ AllZero("month", 1..12)) => NoDataFailure
    /\ \A j \in 1..Len(cret.ret.pies) : cret.ret.pies[j].colors # <<>>

\* C10: when neither the day data nor the month data has a category with a
\* positive count, the combined chart fails with the no-data error and
\* saves no image
C10_CombinedAllZeroFailsWithNoData ==
    (Charted(DAY_MONTH_COMBINED) /\ AllZero("day", 0..6) /\ AllZero("month", 1..12)) =>
        NoDataFailure

(* ---------------------- properties of the palette --------------------- *)
\* the channel values of the colors of PaletteColors
ChannelsOf(color) ==
    CASE color = Color_000000 -> <<0, 0, 0>>
      [] color = Color_ffffff -> <<255, 255, 255>>
      [] color = Color_4e79a7 -> <<78, 121, 167>>
      [] color = Color_2e4977 -> <<46, 73, 119>>
      [] color = Color_37005a -> <<55, 0, 90>>
      [] color = Color_FF8000 -> <<255, 128, 0>>

TwoLowerHex(v) ==
    LET digit == <<"0", "1", "2", "3", "4", "5", "6", "7", "8", "9",
                   "a", "b", "c", "d", "e", "f">>
    IN  <<digit[(v \div 16) + 1], digit[(v % 16) + 1]>>

\* floor(p + (s - p) * i / (n - 1)), in exact arithmetic
ReferenceChannel(p, s, i, n) == (p * (n - 1) + (s - p) * i) \div (n - 1)

ReferenceColor(primary, secondary, i, n) ==
    <<"#">> \o TwoLowerHex(ReferenceChannel(ChannelsOf(primary)[1], ChannelsOf(secondary)[1], i, n))
            \o TwoLowerHex(ReferenceChannel(ChannelsOf(primary)[2], ChannelsOf(secondary)[2], i, n))
            \o TwoLowerHex(ReferenceChannel(ChannelsOf(primary)[3], ChannelsOf(secondary)[3], i, n))

ReferencePalette(primary, secondary, n) ==
    IF n = 1 THEN <<primary>>
    ELSE IF n = 2 THEN <<primary, secondary>>
    ELSE [j \in 1..n |-> ReferenceColor(primary, secondary, j - 1, n)]

\* C8: the palette for N colors is [primary] for N = 1, [primary, secondary]
\* for N = 2, and for N >= 3 the N colors whose channels are
\* floor(p + (s - p) * i / (N - 1)), written as '#' and two lower-case hex
\* digits per channel; it always has length N
C8_PaletteEqualsReference ==
    palette.done =>
        /\ Len(palette.colors) = pcfg.count
        /\ palette.colors =
               ReferencePalette(pcfg.color_primary, pcfg.color_secondary, pcfg.count)

(* ----------------- properties of the plot configuration --------------- *)
PlotConfigBuilt == result.op = "PlotConfig"

HexCharacters ==
    {"0", "1", "2", "3", "4", "5", "6", "7", "8", "9",
     "a", "b", "c", "d", "e", "f", "A", "B", "C", "D", "E", "F"}

\* '#' followed by exactly six hexadecimal digits
HashAndSixHexDigits(v) ==
    Len(v) = 7 /\ v[1] = "#" /\ \A j \in 2..7 : v[j] \in HexCharacters

\* C16: PlotConfig construction accepts color_primary and color_secondary
\* only when each is '#' followed by exactly six hexadecimal digits; any
\* other text (a sign, an x prefix, an underscore or whitespace after the
\* '#', another length) makes construction fail
C16_ColorsAreHashAndSixHexDigits ==
    (PlotConfigBuilt /\ result.ret.ok) =>
        /\ HashAndSixHexDigits(result.ret.value.color_primary)
        /\ HashAndSixHexDigits(result.ret.value.color_secondary)

\* C17: PlotConfig construction rejects a figsize whose width or height is
\* zero or negative; a constructed PlotConfig has two positive sizes
C17_FigsizePositive ==
    (PlotConfigBuilt /\ result.ret.ok) =>
        /\ result.ret.value.figsize[1] > 0
        /\ result.ret.value.figsize[2] > 0

NumbersInBounds(k) ==
    /\ 72 <= k.dpi /\ k.dpi <= 600
    /\ 8 <= k.font_size /\ k.font_size <= 24
    /\ 10 <= k.title_fontsize /\ k.title_fontsize <= 32
    /\ 0 <= k.grid_alpha /\ k.grid_alpha <= 10

\* C18: PlotConfig construction succeeds only with dpi in [72, 600],
\* font_size in [8, 24], title_fontsize in [10, 32] and grid_alpha in [0, 1];
\* with the default colors it succeeds for every value inside the bounds,
\* the bounds themselves included, and it names the fields that are outside
C18_NumericBoundsEnforced ==
    PlotConfigBuilt =>
        /\ result.ret.ok => NumbersInBounds(arguments.kwargs)
        /\ ("dpi" \in result.ret.errors) <=>
               (arguments.kwargs.dpi < 72 \/ arguments.kwargs.dpi > 600)
        /\ ("grid_alpha" \in result.ret.errors) <=>
               (arguments.kwargs.grid_alpha < 0 \/ arguments.kwargs.grid_alpha > 10)
        /\ (/\ NumbersInBounds(arguments.kwargs)
            /\ arguments.kwargs.color_primary = Color_4e79a7
            /\ arguments.kwargs.color_secondary = Color_2e4977) =>
               (result.ret.ok /\ result.ret.value = arguments.kwargs)

\* dpi 601 alone is refused, naming dpi
C18_Witness ==
    /\ PlotConfigBuilt
    /\ arguments.kwargs = [DefaultPlotConfig EXCEPT !.dpi = 601]
    /\ ~result.ret.ok
    /\ result.ret.errors = {"dpi"}
    /\ result.ret.value = NoConfig

(* ---------------- properties of the chart configuration --------------- *)
DefaultConfigMade == result.op = "create_default_chart_config"

\* the default title and filename stem of each chart kind
DefaultTitle(chart_type) ==
    CASE chart_type = "hour_bar" -> Text_Commits_by_Hour
      [] chart_type = "day_pie" -> Text_Commits_by_Day_of_Week
      [] chart_type = "month_pie" -> Text_Commits_by_Month
      [] chart_type = "day_month_combined" -> Text_Commits_by_Day_and_Month

DefaultStem(chart_type) ==
    CASE chart_type = "hour_bar" -> Text_commits_by_hour
      [] chart_type = "day_pie" -> Text_commits_by_day
      [] chart_type = "month_pie" -> Text_commits_by_month
      [] chart_type = "day_month_combined" -> Text_commits_by_day_month

\* each label lowercased, with spaces and hyphens replaced by underscores
LabelInStem(label) ==
    CASE label = Label_My_Repo -> <<"m", "y", "_", "r", "e", "p", "o">>
      [] label = Label_a_b -> <<"a", "_", "b">>
      [] label = Label_RepoViz -> <<"r", "e", "p", "o", "v", "i", "z">>
      [] label = Label_org_repo -> <<"o", "r", "g", "/", "r", "e", "p", "o">>
      [] label = Label_A_b_C -> <<"a", "_", "b", "_", "c">>
      [] label = Label_space -> <<"_">>

HasLabel == arguments.repo_name # Absent /\ arguments.repo_name # <<>>

\* C14: whenever create_default_chart_config returns a configuration, its
\* title and filename stem are the fixed defaults of the chart kind when
\* there is no label, and with a non-empty label L the title is
\* "{default} - {L}" and the stem is "{stem}_" followed by L lowercased with
\* spaces and hyphens replaced by underscores
C14_DefaultTitleAndStem ==
    (DefaultConfigMade /\ result.ret.ok) =>
        /\ result.ret.value.chart_type = arguments.chart_type
        /\ result.ret.value.repository_name = arguments.repo_name
        /\ ~HasLabel =>
               /\ result.ret.value.title = DefaultTitle(arguments.chart_type)
               /\ result.ret.value.output_filename = DefaultStem(arguments.chart_type)
        /\ HasLabel =>
               /\ result.ret.value.title =
                      DefaultTitle(arguments.chart_type) \o <<" ", "-", " ">>
                          \o arguments.repo_name
               /\ result.ret.value.output_filename =
                      DefaultStem(arguments.chart_type) \o <<"_">>
                          \o LabelInStem(arguments.repo_name)

\* MONTH_PIE with the label My-Repo
C14_Witness ==
    /\ DefaultConfigMade
    /\ arguments.chart_type = MONTH_PIE
    /\ arguments.repo_name = Label_My_Repo
    /\ result.ret.ok
    /\ result.ret.value.title =
           <<"C", "o", "m", "m", "i", "t", "s", " ", "b", "y", " ", "M", "o", "n", "t", "h",
             " ", "-", " ", "M", "y", "-", "R", "e", "p", "o">>
    /\ result.ret.value.output_filename =
           <<"c", "o", "m", "m", "i", "t", "s", "_", "b", "y", "_", "m", "o", "n", "t", "h",
             "_", "m", "y", "_", "r", "e", "p", "o">>

ChartConfigBuilt == result.op = "ChartConfig"

\* the text holds one of the nine reserved characters
HasReservedCharacter(v) ==
    \E j \in 1..Len(v) : v[j] \in {"/", "\\", ":", "*", "?", "\"", "<", ">", "|"}

\* C15: with the other fields valid, ChartConfig construction fails if and
\* only if output_filename is empty or holds one of the nine reserved
\* characters; no constructed ChartConfig has a path separator in its
\* output_filename
C15_FilenameRejectedIffReserved ==
    /\ (ChartConfigBuilt /\ arguments.kwargs.title # <<>>) =>
           (~result.ret.ok <=>
                (arguments.kwargs.output_filename = <<>>
                     \/ HasReservedCharacter(arguments.kwargs.output_filename)))
    /\ ((ChartConfigBuilt \/ DefaultConfigMade) /\ result.ret.ok) =>
           \A j \in 1..Len(result.ret.value.output_filename) :
               result.ret.value.output_filename[j] \notin {"/", "\\"}

\* output_filename "bad/name" is refused, naming the field
C15_Witness ==
    /\ ChartConfigBuilt
    /\ arguments.kwargs.title = Title_T
    /\ arguments.kwargs.output_filename = Name_bad_slash_name
    /\ ~result.ret.ok
    /\ result.ret.errors = {"output_filename"}
    /\ result.ret.value = NoConfig

(* ------------- properties of the chart of the environment ------------- *)
\* C11: every ChartConfig that create_chart_from_env hands to
\* create_chart_from_config satisfies all field constraints: a non-empty
\* title, a non-empty output_filename without reserved character, a dpi in
\* [72, 600] and two colors that are '#' and six hexadecimal digits; an
\* environment that breaks one of them makes construction fail
C11_HandedConfigIsValid ==
    (result.op = "create_chart_from_env" /\ result.handed) =>
        /\ result.config.title # <<>>
        /\ result.config.output_filename # <<>>
        /\ ~HasReservedCharacter(result.config.output_filename)
        /\ 72 <= result.config.plot_config.dpi
        /\ result.config.plot_config.dpi <= 600
        /\ HashAndSixHexDigits(result.config.plot_config.color_primary)
        /\ HashAndSixHexDigits(result.config.plot_config.color_secondary)

(* -------------------- properties of the chart tools ------------------- *)
ToolCalled == result.op \in ChartTools

Given(text) == text # Absent /\ text # <<>>

\* an override that breaks a field constraint
OverrideBreaksConstraint(args) ==
    \/ args.dpi # 0 /\ (args.dpi < 72 \/ args.dpi > 600)
    \/ Given(args.color_primary) /\ ~HashAndSixHexDigits(args.color_primary)
    \/ Given(args.output_filename) /\ HasReservedCharacter(args.output_filename)

\* C12: in each of the four chart handlers, when dpi, color_primary, title
\* or output_filename breaks a field constraint, the answer is success=false
\* and no data-collection script and no visualization script has been run
C12_InvalidOverridesRunNothing ==
    (ToolCalled /\ OverrideBreaksConstraint(arguments.args)) =>
        /\ ~result.ret.success
        /\ result.ret.scripts = <<>>

\* C13: for any repository label, supplied or detected, a request with a
\* valid explicit title and a valid explicit output_filename (and no other
\* invalid override) yields a configuration whose title and output_filename
\* are exactly the supplied values
C13_ExplicitTitleAndNameOverride ==
    (/\ ToolCalled
     /\ Given(arguments.args.title)
     /\ Given(arguments.args.output_filename)
     /\ ~OverrideBreaksConstraint(arguments.args)) =>
        /\ ~result.ret.raised
        /\ result.ret.configured
        /\ result.ret.config.title = arguments.args.title
        /\ result.ret.config.output_filename = arguments.args.output_filename

(* ------------- further properties of the validator -------------------- *)
\* the lines whose second token is a negative integer
NegativeCountLines(lines) ==
    {k \in NonBlank(lines) : TwoIntegers(lines[k]) /\ IntsOn(lines[k])[2] < 0}

\* the non-blank lines before k that the call rejects
RejectedEarlier(lines, k, path) ==
    {j \in NonBlank(lines) :
        j < k /\ (~TwoIntegers(lines[j]) \/ IntsOn(lines[j])[2] < 0
                      \/ KindOfPath(path) = None)}

\* C19 as stated: every line with a negative count makes the call fail with
\* an error that names that line
C19_ErrorNamesNegativeLine ==
    ReadExisting =>
        \A k \in NegativeCountLines(ReadLines) :
            vret.ret.status = "error" /\ vret.ret.line = k

\* C19 amended: a line with a negative count makes the call fail for the
\* whole file with a ValueError and no records; the error names that line
\* when every non-blank line before it is accepted and an earlier line
\* otherwise; no returned record has a count below 0
C19_NegativeCountFailsFile ==
    ReadExisting =>
        /\ \A k \in NegativeCountLines(ReadLines) :
               /\ vret.ret.status = "error"
               /\ vret.ret.exc = "ValueError"
               /\ vret.ret.records = <<>>
               /\ RejectedEarlier(ReadLines, k, vret.file_path) = {} => vret.ret.line = k
               /\ RejectedEarlier(ReadLines, k, vret.file_path) # {} => vret.ret.line < k
        /\ \A i \in 1..Len(vret.ret.records) : vret.ret.records[i].count >= 0

\* "0 0" then "3 -5" in a file with a period hint: the error names line 2
C19_Witness ==
    /\ ReadExisting
    /\ KindOfPath(vret.file_path) # None
    /\ Len(ReadLines) = 2
    /\ ReadLines[1] = Line_0_0
    /\ ReadLines[2] = Line_3_m5
    /\ vret.ret.status = "error"
    /\ vret.ret.cause = "ValidationError"
    /\ vret.ret.line = 2
    /\ vret.ret.records = <<>>

\* C20: on a path that does not exist the call fails with a file-not-found
\* error naming the path, also when the name has no hour/day/month hint:
\* the check comes before the period kind is inferred
C20_MissingFileIsNotFound ==
    (Validated /\ ~fs[vret.file_path].exists) =>
        /\ vret.ret.status = "error"
        /\ vret.ret.exc = "FileNotFoundError"
        /\ vret.ret.named = vret.file_path
        /\ vret.ret.cause # "CannotDeterminePeriodType"
        /\ vret.ret.records = <<>>

\* counts.txt, which has no hint, does not exist
C20_Witness ==
    /\ Validated
    /\ vret.file_path = Path_counts
    /\ ~fs[Path_counts].exists
    /\ vret.ret.exc = "FileNotFoundError"
    /\ vret.ret.named = Path_counts

(* ------------------ further properties of the palette ----------------- *)
LowerHexCharacters ==
    {"0", "1", "2", "3", "4", "5", "6", "7", "8", "9", "a", "b", "c", "d", "e", "f"}

\* a 7-character #rrggbb string
IsRrggbb(e) ==
    Len(e) = 7 /\ e[1] = "#" /\ \A j \in 2..7 : e[j] \in LowerHexCharacters

\* the value 0..255 written by the two characters of channel k of entry e
EntryChannel(e, k) ==
    LET val(c) == CHOOSE v \in 0..15 : TwoLowerHex(v)[2] = c
    IN  16 * val(e[2 * k]) + val(e[2 * k + 1])

Between(x, a, b) == (a <= x /\ x <= b) \/ (b <= x /\ x <= a)

\* channel k of the palette moves from p to s without turning back
MonotoneChannel(colors, k, p, s) ==
    \A j \in 1..(Len(colors) - 1) :
        IF p <= s THEN EntryChannel(colors[j], k) <= EntryChannel(colors[j + 1], k)
        ELSE EntryChannel(colors[j], k) >= EntryChannel(colors[j + 1], k)

\* C29: for N >= 3 and colors that are '#' and six hex digits, every palette
\* entry is a 7-character #rrggbb string, each of its channels lies between
\* the primary's and the secondary's channel (inclusive) and moves
\* monotonically with the index, the first entry has the primary's channel
\* values and the last the secondary's
C29_PaletteStepsBetweenEndpoints ==
    (palette.done /\ pcfg.count >= 3) =>
        LET colors == palette.colors
            p == ChannelsOf(pcfg.color_primary)
            s == ChannelsOf(pcfg.color_secondary)
        IN  /\ Len(colors) = pcfg.count
            /\ \A j \in 1..Len(colors) : IsRrggbb(colors[j])
            /\ \A j \in 1..Len(colors) : \A k \in 1..3 :
                   Between(EntryChannel(colors[j], k), p[k], s[k])
            /\ \A k \in 1..3 : MonotoneChannel(colors, k, p[k], s[k])
            /\ \A k \in 1..3 : EntryChannel(colors[1], k) = p[k]
            /\ \A k \in 1..3 : EntryChannel(colors[Len(colors)], k) = s[k]

\* a palette of at least three colors between two different colors, one channel
\* rising and one falling, with an entry strictly inside the range
C29_Witness ==
    /\ palette.done
    /\ pcfg.count >= 3
    /\ pcfg.color_primary = Color_37005a
    /\ pcfg.color_secondary = Color_FF8000
    /\ EntryChannel(palette.colors[2], 1) > 55
    /\ EntryChannel(palette.colors[2], 1) < 255
    /\ EntryChannel(palette.colors[2], 3) < 90
    /\ EntryChannel(palette.colors[2], 3) > 0

(* ------------------ further properties of the charts ------------------ *)
\* the data sets of a chart kind, in the order the kind needs them
ExpectedLoads(chart_type) ==
    CASE chart_type = HOUR_BAR -> <<"hour">>
      [] chart_type = DAY_PIE -> <<"day">>
      [] chart_type = MONTH_PIE -> <<"month">>
      [] chart_type = DAY_MONTH_COMBINED -> <<"day", "month">>

IsPrefix(s, u) == Len(s) <= Len(u) /\ s = SubSeq(u, 1, Len(s))

\* "./Generated Data/{output_filename}.png" for the output filename commit_chart
ExpectedImage == <<"./Generated Data/", "commit_chart", ".png">>

\* C22: create_chart_from_config loads only the data sets of the configured
\* chart kind, none twice (hour for HOUR_BAR, day for DAY_PIE, month for
\* MONTH_PIE, day then month for DAY_MONTH_COMBINED); when it succeeds it has
\* loaded each of them once, and it writes and returns the single image path
\* "./Generated Data/{output_filename}.png"
C22_LoadsOwnDataAndWritesOneImage ==
    [][cret'.op = "create_chart_from_config" =>
          /\ IsPrefix(cret'.ret.loads, ExpectedLoads(cret'.chart_type))
          /\ cret'.ret.loads # <<>>
          /\ cret'.ret.status = "ok" =>
                 /\ cret'.ret.loads = ExpectedLoads(cret'.chart_type)
                 /\ cret'.ret.output_path = ExpectedImage
                 /\ images' = images \cup {ExpectedImage}]_vars

\* a combined chart that succeeded after loading day and month data
C22_Witness ==
    /\ Charted(DAY_MONTH_COMBINED)
    /\ cret.ret.status = "ok"
    /\ cret.ret.loads = <<"day", "month">>
    /\ Len(cret.ret.day_data) > 0
    /\ Len(cret.ret.month_data) > 0
    /\ images = {ExpectedImage}

\* the pies a chart kind shows
PiesOf(chart_type) ==
    CASE chart_type = HOUR_BAR -> 0
      [] chart_type = DAY_PIE -> 1
      [] chart_type = MONTH_PIE -> 1
      [] chart_type = DAY_MONTH_COMBINED -> 2

\* a request that fails writes no image and no schema file
NothingWrittenOnFailure ==
    [][cret'.ret.status = "error" => (images' = images /\ schemas' = schemas)]_vars

\* C26: the image is written only after every data set of the chart kind has
\* been loaded and validated and the palette of each of its pies computed;
\* a request in which a load, a validation or the no-data check fails writes
\* no image file and no schema file
C26_ImageOnlyAfterEveryStep ==
    [][/\ cret'.ret.status = "error" => (images' = images /\ schemas' = schemas)
       /\ schemas' # schemas => cret'.ret.saved
       /\ cret'.ret.saved =>
              /\ cret'.ret.status = "ok"
              /\ cret'.ret.loads = ExpectedLoads(cret'.chart_type)
              /\ \A k \in 1..Len(cret'.ret.loads) : Loaded(cret'.ret.loads[k])
              /\ cret'.ret.palettes = PiesOf(cret'.chart_type)]_vars

(* --------------- further properties of the chart tools ---------------- *)
\* the steps of each chart tool, in their order
ExpectedSteps(name) ==
    CASE name = "generate_hour_bar_chart" ->
             <<"./commit_history.sh", "./commits_by_hour.sh", "plot_repo_by_hour.py">>
      [] name = "generate_day_pie_chart" ->
             <<"./commit_history.sh", "./commits_by_day.sh", "plot_pie_day.py">>
      [] name = "generate_month_pie_chart" ->
             <<"./commit_history.sh", "./commits_by_month.sh", "plot_pie_month.py">>
      [] name = "generate_combined_day_month_chart" ->
             <<"./commit_history.sh", "./commits_by_day.sh", "./commits_by_month.sh",
               "plot_repo_by_pie.py">>

Among(x, s) == \E j \in 1..Len(s) : s[j] = x

\* C27: each chart handler runs commit_history.sh, then its aggregation
\* script(s), then its visualization script, in that order; it runs nothing
\* after the first step that fails; it answers success=true exactly when
\* every step was run and none failed
C27_StepsInOrderStopAtFailure ==
    ToolCalled =>
        LET steps == ExpectedSteps(result.op)
            run == result.ret.scripts
        IN  /\ IsPrefix(run, steps)
            /\ Among(result.failing, run) => run[Len(run)] = result.failing
            /\ result.ret.success <=> (run = steps /\ ~Among(result.failing, steps))

(* ------------------- properties of the request loop ------------------- *)
Served == result.op = "call_tool"

\* C21: whatever the tool name and the arguments, no exception leaves
\* call_tool; an exception raised inside a handler is answered with
\* success=false and error details; and the answer to a request is the same
\* whatever was served, and failed, before it
C21_FailuresAreAnsweredNotRaised ==
    /\ ~server.escaped
    /\ Served =>
           /\ ~result.answer.escaped
           /\ result.answer.raised =>
                  /\ ~result.answer.success
                  /\ ~result.answer.plain
                  /\ result.answer.error_details # None
           /\ result.answer =
                  serve(fs, arguments.request, result.detected, result.failing)

(* ----------------- properties of configuration as JSON ---------------- *)
\* the fields a valid object must have, with valid values
ValidObject(object) ==
    /\ {"title", "output_filename", "chart_type"} \subseteq DOMAIN object
    /\ object.title # <<>>
    /\ object.output_filename # <<>>
    /\ ~HasReservedCharacter(object.output_filename)
    /\ object.chart_type \in
           {Text_hour_bar, Text_day_pie, Text_month_pie, Text_day_month_combined}
    /\ "plot_config" \in DOMAIN object =>
           /\ "dpi" \in DOMAIN object.plot_config =>
                  (72 <= object.plot_config.dpi /\ object.plot_config.dpi <= 600)
           /\ \A k \in {"color_primary", "color_secondary"} \cap DOMAIN object.plot_config :
                  HashAndSixHexDigits(object.plot_config[k])

\* the configuration read from a valid object: its known keys, defaults
\* for the optional fields it leaves out, no unknown key
ReadsKnownKeysAndDefaults(object, config) ==
    /\ DOMAIN config = ChartConfigKeys
    /\ DOMAIN config.plot_config = PlotConfigKeys
    /\ config.title = object.title
    /\ config.output_filename = object.output_filename
    /\ config.repository_name =
           IF "repository_name" \in DOMAIN object /\ object.repository_name # JsonNull
           THEN object.repository_name ELSE Absent
    /\ \A k \in PlotConfigKeys \ {"figsize"} :
           config.plot_config[k] =
               IF "plot_config" \in DOMAIN object /\ k \in DOMAIN object.plot_config
               THEN object.plot_config[k] ELSE DefaultPlotConfig[k]
    /\ config.plot_config.figsize =
           IF "plot_config" \in DOMAIN object /\ "figsize" \in DOMAIN object.plot_config
           THEN object.plot_config.figsize.array ELSE <<12, 8>>

\* reading a valid parsed object ignores unknown keys and fills the defaults
ImportIgnoresUnknownAndDefaults ==
    (result.op = "import" /\ ValidObject(arguments.object)) =>
        /\ result.imported.ok
        /\ ReadsKnownKeysAndDefaults(arguments.object, result.imported.value)

\* the JSON object of a configuration reads back as that configuration
DumpReadsBack ==
    arguments.op = "export_import" =>
        /\ ChartConfigOfJson(JsonDump(arguments.config)).ok
        /\ ChartConfigOfJson(JsonDump(arguments.config)).value = arguments.config

\* C23: serializing a valid ChartConfig, with its nested PlotConfig, to JSON
\* and constructing a ChartConfig from the parsed object gives a
\* configuration equal to the original; reading a valid object ignores its
\* unknown keys and gives the absent optional fields their defaults
C23_JsonRoundTrips ==
    /\ result.op = "export_import" =>
           /\ ~result.exported.raised
           /\ result.imported.ok
           /\ result.imported.value = arguments.config
    /\ ImportIgnoresUnknownAndDefaults

(* ---------------------- properties of the database -------------------- *)
\* the rows of the repositories table that carry a name
RowsNamed(database, name) ==
    {j \in DOMAIN database.repositories : database.repositories[j].name = name}

\* C24: get_or_create_repository is idempotent per name: there is at most
\* one Repository row for each name, the first call for a name creates the
\* row, and every later call for that name returns the row with the same id
\* and neither creates nor modifies any row
C24_GetOrCreateIsIdempotent ==
    [][result'.op = "get_or_create_repository" =>
          LET name == result'.name
              before == RowsNamed(db, name)
          IN  /\ \A n \in {Name_RepoViz, Name_Leora} : Cardinality(RowsNamed(db', n)) <= 1
              /\ Cardinality(RowsNamed(db', name)) = 1
              /\ result'.ret.name = name
              /\ IF before = {}
                 THEN /\ db'.repositories = Append(db.repositories, result'.ret)
                      /\ db'.commits = db.commits
                      /\ db'.summaries = db.summaries
                 ELSE /\ db' = db
                      /\ \A j \in before : result'.ret = db.repositories[j]]_vars

\* a call for the first name after a second repository was created
C24_Witness ==
    /\ result.op = "get_or_create_repository"
    /\ Len(db.repositories) = 2
    /\ result.ret.id = 1

\* the day of the week of each timestamp, counted from Sunday
DocumentedDayOfWeek(timestamp) ==
    CASE timestamp = Timestamp_Sat -> 6
      [] timestamp = Timestamp_Sun -> 0
      [] timestamp = Timestamp_Mon -> 1

\* C30: the day_of_week that add_commit stores follows the documented
\* convention 0=Sunday .. 6=Saturday: a commit on a Sunday is stored with
\* day_of_week 0 and one on a Saturday with 6
C30_DayOfWeekCountsFromSunday ==
    \A j \in DOMAIN db.commits :
        db.commits[j].day_of_week = DocumentedDayOfWeek(db.commits[j].timestamp)

\* what add_commit stores instead: the day counted from Monday
DayOfWeekCountsFromMonday ==
    \A j \in DOMAIN db.commits :
        db.commits[j].day_of_week = (DocumentedDayOfWeek(db.commits[j].timestamp) + 6) % 7

\* the periods of each period type
PeriodsOfType(period_type) ==
    CASE period_type = HOUR -> 0..23
      [] period_type = DAY -> 0..6
      [] period_type = MONTH -> 1..12

\* the commits of a repository that fall in a period
CommitsIn(database, repo_id, period_type, period_value) ==
    {j \in DOMAIN database.commits :
        /\ database.commits[j].repository_id = repo_id
        /\ period_value = (CASE period_type = HOUR -> database.commits[j].hour
                             [] period_type = DAY -> database.commits[j].day_of_week
                             [] period_type = MONTH -> database.commits[j].month)}

\* the summary rows of a repository for a period
SummaryRows(database, repo_id, period_type, period_value) ==
    {j \in DOMAIN database.summaries :
        /\ database.summaries[j].repository_id = repo_id
        /\ database.summaries[j].period_type = period_type
        /\ database.summaries[j].period_value = period_value}

\* the summaries of a repository are the aggregation of its commits
IsAggregation(database, repo_id) ==
    /\ \A period_type \in PeriodType : \A period_value \in PeriodsOfType(period_type) :
           LET commits == CommitsIn(database, repo_id, period_type, period_value)
               rows == SummaryRows(database, repo_id, period_type, period_value)
           IN  IF commits = {} THEN rows = {}
               ELSE /\ Cardinality(rows) = 1
                    /\ \A j \in rows :
                           database.summaries[j].commit_count = Cardinality(commits)
    /\ \A j \in DOMAIN database.summaries :
           database.summaries[j].repository_id = repo_id =>
               /\ database.summaries[j].period_type \in PeriodType
               /\ database.summaries[j].period_value
                      \in PeriodsOfType(database.summaries[j].period_type)

\* the summaries of the repositories other than repo_id, in table order
SummariesOfOthers(database, repo_id) ==
    SelectSeq(database.summaries, LAMBDA s : s.repository_id # repo_id)

\* C28: after update_commit_summaries(repo_id) the CommitSummary rows of the
\* repository are exactly the aggregation of its Commit rows (one row per
\* period type and value with commits, holding their number, and no other
\* row), whatever summaries it had before; the summaries of the other
\* repositories are unchanged, and a second call without new commits
\* changes nothing
C28_SummariesAreTheAggregation ==
    [][result'.op = "update_commit_summaries" =>
          LET repo_id == result'.repo_id
          IN  /\ IsAggregation(db', repo_id)
              /\ db'.commits = db.commits
              /\ db'.repositories = db.repositories
              /\ SummariesOfOthers(db', repo_id) = SummariesOfOthers(db, repo_id)
              /\ (result.op = "update_commit_summaries" /\ result.repo_id = repo_id)
                     => db' = db]_vars

\* the summaries of repository 1 were refreshed: two of its commits share a
\* period, and repository 2 has summaries of its own
C28_Witness ==
    /\ result.op = "update_commit_summaries"
    /\ result.repo_id = 1
    /\ \E j \in DOMAIN db.summaries :
           db.summaries[j].repository_id = 1 /\ db.summaries[j].commit_count = 2
    /\ \E j \in DOMAIN db.summaries : db.summaries[j].repository_id = 2

(* ----------------------- properties of the import --------------------- *)
\* the file the import reads for each period type
ImportFileOf(period_type) ==
    CASE period_type = HOUR -> Path_cwd_commit_counts
      [] period_type = DAY -> Path_cwd_commit_counts_day
      [] period_type = MONTH -> Path_cwd_commit_counts_month

\* the periods written in a file, and the count on the last line of a period
PeriodsIn(lines) == {IntsOn(lines[k])[1] : k \in NonBlank(lines)}

LastCountOn(lines, period) ==
    LET on == {k \in NonBlank(lines) : IntsOn(lines[k])[1] = period}
    IN  IntsOn(lines[CHOOSE k \in on : \A j \in on : j <= k])[2]

\* every period of the file has one summary row, holding its last count
Upserted(database, repo_id, period_type, file) ==
    \A period \in PeriodsIn(file.lines) :
        LET rows == SummaryRows(database, repo_id, period_type, period)
        IN  /\ Cardinality(rows) = 1
            /\ \A j \in rows :
                   database.summaries[j].commit_count = LastCountOn(file.lines, period)

Imported == result.op = "import_commit_data_from_files"

\* C25: import_commit_data_from_files is an upsert: after it runs with
\* valid data files, every (period_type, period) of a file has exactly one
\* CommitSummary row of the repository, whose commit_count is the count of
\* the last record of that period in the file, also when a summary with the
\* key existed before and when a period is on more than one line
C25_ImportIsUpsert ==
    (Imported /\ \A period_type \in PeriodType :
                     GoodFileFor(period_type, fs[ImportFileOf(period_type)])) =>
        \A period_type \in PeriodType :
            Upserted(db, result.repo_id, period_type, fs[ImportFileOf(period_type)])

\* a period of the file is on more than one line
RepeatsPeriod(file) ==
    \E i, j \in NonBlank(file.lines) :
        i < j /\ IntsOn(file.lines[i])[1] = IntsOn(file.lines[j])[1]

\* the day and month files are upserted when they are valid and the import
\* was committed, which it is when neither repeats a period
DayAndMonthUpserted ==
    Imported =>
        /\ result.committed =>
               \A period_type \in {DAY, MONTH} :
                   GoodFileFor(period_type, fs[ImportFileOf(period_type)]) =>
                       Upserted(db, result.repo_id, period_type,
                                fs[ImportFileOf(period_type)])
        /\ (\A period_type \in {DAY, MONTH} :
                ~RepeatsPeriod(fs[ImportFileOf(period_type)])) => result.committed

\* the hour file is never imported, its path carrying no period hint: an
\* import leaves the hour summaries as they were
HourSummaries(database) == SelectSeq(database.summaries, LAMBDA s : s.period_type = HOUR)

HourFileNotImported ==
    [][result'.op = "import_commit_data_from_files" =>
          HourSummaries(db') = HourSummaries(db)]_vars

============================================================================
